---- MODULE Spec2Model ----
(***************************************************************************)
(* Journey state machines and retry controller of the tariff scrapers     *)
(* (British Gas, E.ON Next v5 / v6, OVO).  One task = one                  *)
(* scrape_with_retry call for a (region, postcode); the browser driver is  *)
(* the environment and its outcomes are drawn nondeterministically.        *)
(***************************************************************************)
EXTENDS Integers, Sequences, FiniteSets, TLC

\* ------------------------------------------------------------------ bounds
MaxAttemptsBound == 3
MaxOptions == 12
MaxPhrases == 2
MaxRegions == 6
MaxAggRegions == 2
MaxLen == 3
MaxSpAttempts == 2
MaxSpOptions == 7
MaxTokens == 4
MaxUnits == 2
MaxResults == 2
MaxTariffs == 2
MaxWait == 10

\* ------------------------------------------------------- program constants
BackoffBase == 30
BG_DefaultStart == 2
BG_MaxTried == 6
BG_Fallback == 10
EON5_DefaultStart == 1
EON5_MaxTries == 10
EON6_DefaultStart == 1
EON6_max_tries == 10
EON6_Scan == 20
OVO_DefaultStart == 1
OVO_max_address_retries == 5
SP_DefaultStart == 1
SP_FirstScan == 15
SP_Rescan == 20
SP_max_address_retries == 8
SP_FallbackIndex == 1
BG_WarnFailures == 5
BG_WarnResults == 7
EON6_WarnFailures == 5
EON6_WarnResults == 7
SP_AbortFailures == 3
SP_AbortResults == 4
BatchSize == 3
BG_LastSlice == 12
JitterLow == -5
JitterHigh == 10
EON_JitterLow == -10
EON_JitterHigh == 20
FUSE_WaitLow == 20
FUSE_WaitHigh == 35
BG_BatchWait == 90
SP_BatchWait == 60
EON_BatchWait == 120
BatchJitterHigh == 30
EON_BatchJitterHigh == 60

Suppliers == {"bg", "eon5", "eon6", "ovo"}

\* random.randint(0, J) of each supplier's scrape_with_retry
Jitter(s) ==
  CASE s = "bg"   -> 0
    [] s = "eon6" -> 10
    [] s = "eon5" -> 30
    [] s = "ovo"  -> 30
    [] s = "sp"   -> 15

\* suppliers whose scrape_with_retry threads the tried set through attempts
CarriesTried(s) == s \in {"eon5", "ovo", "sp"}

\* suppliers driven through one Selenium driver created by run_scraper
SharedDriver(s) == s = "eon5"

RECURSIVE Pow2(_)
Pow2(n) == IF n <= 0 THEN 1 ELSE 2 * Pow2(n - 1)

\* wait = 30 * (2 ** (attempt - 1)) + random.randint(0, J)
wait_time_doubled(a, j) == BackoffBase * Pow2(a) + j
wait_time(a, j) == BackoffBase * Pow2(a - 1) + j

\* ------------------------------------------------------------ page texts
\* A page text is abstracted to the set of phrases it contains.
BlockPhrases == {"network error", "access denied", "too many requests",
                 "captcha", "verify you are human", "error", "undefined",
                 "something went wrong"}

\* substring test: 'error' is a substring of 'network error'
Has(text, p) == p \in text \/ (p = "error" /\ "network error" \in text)

PageTexts == {t \in SUBSET BlockPhrases : Cardinality(t) <= MaxPhrases}

\* bg_scraper_v10.detect_blocking: first matching test wins
bg_detect_blocking(text) ==
  IF Has(text, "network error") THEN "network_error"
  ELSE IF Has(text, "access denied") THEN "access_denied"
  ELSE IF Has(text, "too many requests") THEN "rate_limited"
  ELSE IF Has(text, "captcha") \/ Has(text, "verify you are human") THEN "captcha"
  ELSE IF Has(text, "error") /\ Has(text, "undefined") THEN "api_error"
  ELSE IF Has(text, "something went wrong") THEN "generic_error"
  ELSE ""

\* ovo_scraper_v1.detect_blocking
ovo_detect_blocking(text) ==
  IF Has(text, "network error") THEN "network_error"
  ELSE IF Has(text, "access denied") THEN "access_denied"
  ELSE IF Has(text, "too many requests") THEN "rate_limited"
  ELSE IF Has(text, "captcha") \/ Has(text, "verify you are human") THEN "captcha"
  ELSE IF Has(text, "something went wrong") THEN "generic_error"
  ELSE ""

SessionBlockers == {"network_error", "access_denied", "rate_limited",
                    "captcha", "generic_error"}

\* ------------------------------------------------------- address options
\* An option text is abstracted to what the filters look at.
\*   house   : starts with a digit, no skip word      ("10 Main St")
\*   numflat : starts with a digit, has a skip word   ("2 Flat A, Main St")
\*   flat    : no leading digit, has a skip word      ("Flat 2, 10 Main St")
\*   named   : no leading digit, no skip word         ("Select address")
OptionKinds == {"house", "numflat", "flat", "named"}
StartsWithDigit(k) == k \in {"house", "numflat"}
HasSkipWord(k) == k \in {"numflat", "flat"}

OptionPatterns == {"houses", "flats", "mixed"}
OptionLengths == {0, 1, 3, MaxOptions}

\* option lists as the dropdown presents them: a placeholder first
KindAt(pat, i) ==
  IF i = 0 THEN "named"
  ELSE IF pat = "houses" THEN "house"
  ELSE IF pat = "flats" THEN "flat"
  ELSE IF i % 2 = 1 THEN "numflat" ELSE "house"

OptionList(pat, n) == [x \in 1..n |-> KindAt(pat, x - 1)]

\* options[i] with Python's 0-based index
Opt(opts, i) == opts[i + 1]

Min(a, b) == IF a < b THEN a ELSE b

\* ascending sequence of the members of a finite set of integers
RECURSIVE SortedSeq(_)
SortedSeq(S) ==
  IF S = {} THEN <<>>
  ELSE LET m == CHOOSE x \in S : \A y \in S : x <= y
       IN <<m>> \o SortedSeq(S \ {m})

Prefix(s, n) == SubSeq(s, 1, Min(n, Len(s)))

\* ---------------------------------------------------------------- quotes
\* A rates dict is abstracted to the keys it holds.
Quotes == [name : BOOLEAN, exit : BOOLEAN, elec : BOOLEAN, gas : BOOLEAN]
EmptyDict(q) == ~q.name /\ ~q.exit /\ ~q.elec /\ ~q.gas
HasUnitRate(q) == q.elec \/ q.gas

NoError == "null"

VARIABLES
  supplier,      \* which scraper module runs the task
  max_attempts,  \* scrape_with_retry's max_attempts
  options,       \* the address dropdown's option list
  pc,            \* position of the task's thread of control
  attempt,       \* loop variable of scrape_with_retry
  result,        \* the result dict of the running / last attempt
  tried,         \* tried_addresses
  candidates,    \* good_indices / valid_addresses of the running attempt
  cur,           \* loop position in the address loop
  retries,       \* address_retry_count (OVO)
  selected,      \* indices selected in the dropdown in this attempt
  context,       \* browser session in use (0 = none)
  sessions,      \* number of sessions created so far
  closed,        \* sessions closed so far
  sessionOf,     \* sessionOf[k] = session used by attempt k
  baseWaits,     \* 30 * 2^(k-1) of each backoff slept so far
  lastWait,      \* argument of the time.sleep in progress (0 = none)
  seen,          \* milestones observed in this attempt
  missed,        \* milestones waited for and not observed in this attempt
  blocked,       \* kind detect_blocking first reported in this attempt ("" = none)
  addrBlock,     \* address-scoped blocker met by the current candidate
  appended,      \* a quote was appended to result['tariffs'] in this attempt
  outcomes,      \* what scrape_with_retry saw of each attempt it ran
  postcodes,     \* number of regions configured for the batch runner
  results,       \* the batch runner's results list
  partial,       \* content of the supplier's *_tariffs_partial.json
  consecutive_failures,  \* the batch runner's counter
  early_abort,   \* Scottish Power's early_abort flag
  warned,        \* the consecutive-failure warning was printed
  files,         \* the files matching the supplier's output pattern
  latest_file,   \* the file the last load_scraper_results read
  combined,      \* results of the last combine_results
  failed,        \* the master runner's list of records still to retry
  retry_runs,    \* single-postcode re-runs launched so far
  supplier_stats, \* the supplier's entry of save_combined_results' statistics
  start_index,   \* start index handed to the candidate generation under test
  page_text,     \* the page text last read by the Scottish Power journey
  body,          \* text handed to the function under test, in reading order
  returned,      \* what the function under test returned
  scrapers_to_run, \* the names the master runner was asked to run
  threads,       \* the threads the master runner started, in start order
  results_dict,  \* the status dictionary the threads share
  picked,        \* indices selected so far in a task that carries the tried set
  wait_secs,     \* the batch runner's --wait
  actual_wait    \* argument of the batch runner's last time.sleep (0 = none yet)

vars == <<supplier, max_attempts, options, pc, attempt, result, tried,
          candidates, cur, retries, selected, context, sessions, closed,
          sessionOf, baseWaits, lastWait, seen, missed, blocked,
          addrBlock, appended, outcomes, postcodes, results, partial,
          consecutive_failures, early_abort, warned, files, latest_file,
          combined, failed, retry_runs, supplier_stats, start_index,
          page_text, body, returned, scrapers_to_run, threads,
          results_dict, picked, wait_secs, actual_wait>>

config == <<supplier, max_attempts, options>>
retryVars == <<baseWaits, lastWait, outcomes, picked>>
sessionVars == <<context, sessions, closed, sessionOf>>
addrVars == <<tried, candidates, cur, retries, selected, addrBlock>>
ghostVars == <<seen, missed, blocked, appended>>
batchVars == <<postcodes, results, partial, consecutive_failures, early_abort,
               warned, wait_secs, actual_wait>>
\* state of the runners around a task, which no journey step touches
aggVars == <<files, latest_file, combined, failed, retry_runs, supplier_stats>>
unitVars == <<body, returned>>
runVars == <<scrapers_to_run, threads, results_dict>>
outerVars == <<batchVars, aggVars, start_index, page_text, unitVars, runVars>>

\* no function is under test
NotCalled == "not called"
UnitIdle ==
  /\ body = <<>>
  /\ returned = NotCalled

\* the master runner started no thread
RunIdle ==
  /\ scrapers_to_run = <<>>
  /\ threads = <<>>
  /\ results_dict = <<>>

\* get_latest_file found nothing
NoFile == [mtime |-> 0, run |-> "none", data |-> <<>>]

\* the master runner before it starts
AggIdle ==
  /\ files = {}
  /\ latest_file = NoFile
  /\ combined = <<>>
  /\ failed = <<>>
  /\ retry_runs = 0
  /\ supplier_stats = [total |-> 0, success |-> 0]

\* run_scraper before its first region
BatchIdle ==
  /\ postcodes = 0
  /\ results = <<>>
  /\ partial = <<>>
  /\ consecutive_failures = 0
  /\ early_abort = FALSE
  /\ warned = FALSE
  /\ wait_secs = 0
  /\ actual_wait = 0

NewResult(a) == [tariffs |-> <<>>, error |-> NoError, attempt |-> a]

Init ==
  /\ supplier \in Suppliers
  /\ max_attempts \in 1..MaxAttemptsBound
  /\ \E pat \in OptionPatterns, n \in OptionLengths : options = OptionList(pat, n)
  /\ pc = "retry_loop"
  /\ attempt = 0
  /\ result = NewResult(0)
  /\ tried = {}
  /\ candidates = <<>>
  /\ cur = 0
  /\ retries = 0
  /\ selected = <<>>
  \* run_scraper of E.ON v5 creates the driver before the first task
  /\ context = IF SharedDriver(supplier) THEN 1 ELSE 0
  /\ sessions = IF SharedDriver(supplier) THEN 1 ELSE 0
  /\ closed = {}
  /\ sessionOf = <<>>
  /\ baseWaits = <<>>
  /\ lastWait = 0
  /\ seen = {}
  /\ missed = {}
  /\ blocked = ""
  /\ addrBlock = ""
  /\ appended = FALSE
  /\ outcomes = <<>>
  /\ picked = <<>>
  /\ BatchIdle
  /\ AggIdle
  /\ RunIdle
  /\ start_index = 0
  /\ page_text = {}
  /\ UnitIdle

\* ------------------------------------------------------ shared fragments
\* raise ... caught by the journey's except clause: result['error'] = str(e)
Raise(err, handler) ==
  /\ result' = [result EXCEPT !.error = err]
  /\ pc' = handler

Goto(label) == pc' = label /\ UNCHANGED result

\* detect_blocking returned (True, kind)
NoteBlocked(kind) == blocked' = IF blocked = "" THEN kind ELSE blocked

Entry(s) ==
  CASE s = "bg"   -> "bg_context"
    [] s = "eon5" -> "eon5_step1"
    [] s = "eon6" -> "eon6_context"
    [] s = "ovo"  -> "ovo_context"
    [] s = "sp"   -> "sp_context"

\* ------------------------------------------------- scrape_with_retry
\* an index the step selected in the dropdown joins the selections of the
\* task; they are kept for the scrapers whose scrape_with_retry hands the
\* tried set from attempt to attempt
NotePick ==
  picked' = IF CarriesTried(supplier) /\ Len(selected') > Len(selected)
              THEN Append(picked, selected'[Len(selected')])
              ELSE picked

\* for attempt in range(1, max_attempts + 1): result = scrape_xxx(..., attempt)
retry_StartAttempt ==
  /\ pc = "retry_loop"
  /\ attempt < max_attempts
  /\ attempt' = attempt + 1
  /\ result' = NewResult(attempt + 1)
  /\ pc' = Entry(supplier)
  /\ sessionOf' = Append(sessionOf, context)
  /\ UNCHANGED <<outerVars, config, addrVars, context, sessions, closed, retryVars,
                 ghostVars>>

\* if result.get('tariffs'): return result
retry_ReturnSuccess_falls_through ==
  /\ pc = "attempt_done"
  /\ result.tariffs # <<>>
  /\ pc' = IF attempt < max_attempts THEN "retry_loop" ELSE "returned"
  /\ outcomes' = Append(outcomes, [attempt |-> result.attempt, ok |-> TRUE])
  /\ UNCHANGED <<outerVars, config, attempt, result, addrVars, sessionVars, baseWaits,
                 lastWait, ghostVars, picked>>

retry_ReturnSuccess ==
  /\ pc = "attempt_done"
  /\ result.tariffs # <<>>
  /\ pc' = "returned"
  /\ outcomes' = Append(outcomes, [attempt |-> result.attempt, ok |-> TRUE])
  /\ UNCHANGED <<outerVars, config, attempt, result, addrVars, sessionVars, baseWaits,
                 lastWait, ghostVars, picked>>

\* if attempt < max_attempts: time.sleep(30 * 2 ** (attempt - 1) + jitter)
retry_Backoff ==
  /\ pc = "attempt_done"
  /\ result.tariffs = <<>>
  /\ attempt < max_attempts
  /\ \E j \in 0..Jitter(supplier) :
       /\ lastWait' = wait_time(attempt, j)
       /\ baseWaits' = Append(baseWaits, wait_time(attempt, j) - j)
  /\ pc' = "sleeping"
  /\ outcomes' = Append(outcomes, [attempt |-> result.attempt, ok |-> FALSE])
  /\ UNCHANGED <<outerVars, config, attempt, result, addrVars, sessionVars, ghostVars, picked>>

\* time.sleep returns; the for loop goes round
retry_Wake ==
  /\ pc = "sleeping"
  /\ pc' = "retry_loop"
  /\ lastWait' = 0
  /\ UNCHANGED <<outerVars, config, attempt, result, addrVars, sessionVars, baseWaits,
                 outcomes, ghostVars, picked>>

\* the loop is exhausted: return result (the last attempt's)
retry_ReturnLast ==
  /\ pc = "attempt_done"
  /\ result.tariffs = <<>>
  /\ attempt >= max_attempts
  /\ pc' = "returned"
  /\ outcomes' = Append(outcomes, [attempt |-> result.attempt, ok |-> FALSE])
  /\ UNCHANGED <<outerVars, config, attempt, result, addrVars, sessionVars, baseWaits,
                 lastWait, ghostVars, picked>>

\* --------------------------------------------- Playwright context handling
\* context = browser.new_context(...); page = context.new_page()
NewContext(okLabel, handler) ==
  \E fail \in {"none", "new_context", "new_page"} :
    /\ IF fail = "new_context"
         THEN UNCHANGED <<context, sessions, sessionOf>>
         ELSE /\ context' = sessions + 1
              /\ sessions' = sessions + 1
              /\ sessionOf' = [sessionOf EXCEPT ![attempt] = sessions + 1]
    /\ IF fail = "none" THEN Goto(okLabel) ELSE Raise("driver error", handler)
    /\ UNCHANGED closed

\* finally: if context: context.close()
CloseContext ==
  /\ closed' = IF context # 0 THEN closed \cup {context} ELSE closed
  /\ context' = 0
  /\ UNCHANGED <<sessions, sessionOf>>

\* return result: the journey's locals go out of scope; tried_addresses
\* survives only where scrape_with_retry passes it to the next attempt
JourneyReturn ==
  /\ pc' = "attempt_done"
  /\ tried' = IF CarriesTried(supplier) THEN tried ELSE {}
  /\ candidates' = <<>>
  /\ cur' = 0
  /\ retries' = 0
  /\ selected' = <<>>
  /\ addrBlock' = ""
  /\ seen' = {}
  /\ missed' = {}
  /\ blocked' = ""
  /\ appended' = FALSE
  /\ UNCHANGED <<outerVars, config, attempt, result, retryVars>>

\* ------------------------------------------------ bg: scrape_bg_tariffs
bg_context ==
  /\ pc = "bg_context"
  /\ NewContext("bg_step1", "bg_finally")
  /\ UNCHANGED <<outerVars, config, attempt, addrVars, retryVars, ghostVars>>

\* STEP 1: page.goto; detect_blocking
bg_step1 ==
  /\ pc = "bg_step1"
  /\ \E loaded \in BOOLEAN, text \in PageTexts :
       LET kind == bg_detect_blocking(text) IN
       IF ~loaded THEN
         /\ Raise("Timeout", "bg_finally")
         /\ UNCHANGED blocked
       ELSE IF kind # "" THEN
         /\ Raise("Blocked on page load", "bg_finally")
         /\ NoteBlocked(kind)
       ELSE
         /\ Goto("bg_step2")
         /\ UNCHANGED blocked
  /\ UNCHANGED <<outerVars, config, attempt, addrVars, sessionVars, retryVars, seen,
                 missed, appended>>

\* STEP 2: postcode_input.wait_for; type; Enter; detect_blocking
bg_step2 ==
  /\ pc = "bg_step2"
  /\ \E visible \in BOOLEAN, text \in PageTexts :
       LET kind == bg_detect_blocking(text) IN
       IF ~visible THEN
         /\ Raise("Timeout", "bg_finally")
         /\ missed' = missed \cup {"postcode_input"}
         /\ UNCHANGED <<seen, blocked>>
       ELSE IF kind # "" THEN
         /\ Raise("Blocked after postcode entry", "bg_finally")
         /\ NoteBlocked(kind)
         /\ seen' = seen \cup {"postcode_input"}
         /\ UNCHANGED missed
       ELSE
         /\ Goto("bg_dropdown")
         /\ seen' = seen \cup {"postcode_input"}
         /\ UNCHANGED <<missed, blocked>>
  /\ UNCHANGED <<outerVars, config, attempt, addrVars, sessionVars, retryVars, appended>>

\* page.locator('#address-select').wait_for(state="visible", timeout=20000)
bg_dropdown_proceeds ==
  /\ pc = "bg_dropdown"
  /\ \E visible \in BOOLEAN :
       /\ Goto("bg_step3")
       /\ IF visible
            THEN seen' = seen \cup {"dropdown"} /\ UNCHANGED missed
            ELSE missed' = missed \cup {"dropdown"} /\ UNCHANGED seen
  /\ UNCHANGED <<outerVars, config, attempt, addrVars, sessionVars, retryVars, blocked,
                 appended>>

bg_dropdown ==
  /\ pc = "bg_dropdown"
  /\ \E visible \in BOOLEAN :
       IF visible THEN
         /\ Goto("bg_step3")
         /\ seen' = seen \cup {"dropdown"}
         /\ UNCHANGED missed
       ELSE
         /\ Raise("Timeout", "bg_finally")
         /\ missed' = missed \cup {"dropdown"}
         /\ UNCHANGED seen
  /\ UNCHANGED <<outerVars, config, attempt, addrVars, sessionVars, retryVars, blocked,
                 appended>>

\* good_indices: options from start_index on without a skip word, else the
\* first 10 options from start_index on
bg_good_indices_unfiltered(opts, start) ==
  SortedSeq(start..(Min(Len(opts), start + BG_Fallback) - 1))

bg_good_indices(opts, start) ==
  LET good == {i \in start..(Len(opts) - 1) : ~HasSkipWord(Opt(opts, i))}
  IN IF good = {}
       THEN SortedSeq(start..(Min(Len(opts), start + BG_Fallback) - 1))
       ELSE SortedSeq(good)

\* STEP 3: build good_indices; the loop runs over good_indices[:6]
bg_step3 ==
  /\ pc = "bg_step3"
  /\ candidates' = Prefix(bg_good_indices(options, BG_DefaultStart), BG_MaxTried)
  /\ cur' = 1
  /\ Goto("bg_select")
  /\ UNCHANGED <<outerVars, config, attempt, tried, retries, selected, addrBlock,
                 sessionVars, retryVars, ghostVars>>

\* loop body, first half: select_option(index=addr_index), click the button
bg_select ==
  /\ pc = "bg_select"
  /\ cur <= Len(candidates)
  /\ \E ok \in BOOLEAN, button_clicked \in BOOLEAN :
       IF ~ok THEN
         /\ Raise("driver error", "bg_finally")
         /\ UNCHANGED <<selected, cur>>
       ELSE
         /\ selected' = Append(selected, candidates[cur])
         /\ IF button_clicked
              THEN Goto("bg_check") /\ UNCHANGED cur
              ELSE Goto("bg_select") /\ cur' = cur + 1
  /\ UNCHANGED <<outerVars, config, attempt, tried, candidates, retries, addrBlock,
                 sessionVars, baseWaits, lastWait, outcomes, ghostVars>>
  /\ NotePick

\* loop body, second half: detect_blocking, then the quote-form check;
\* both failure branches go back and continue with the next index
bg_check ==
  /\ pc = "bg_check"
  /\ \E text \in PageTexts, valid_page \in BOOLEAN, back \in BOOLEAN :
       LET kind == bg_detect_blocking(text) IN
       IF kind # "" THEN
         /\ NoteBlocked(kind)
         /\ UNCHANGED seen
         /\ IF back THEN Goto("bg_select") /\ cur' = cur + 1
                    ELSE Raise("Timeout", "bg_finally") /\ UNCHANGED cur
       ELSE IF valid_page THEN
         /\ seen' = seen \cup {"quote_form"}
         /\ Goto("bg_step6")
         /\ UNCHANGED <<cur, blocked>>
       ELSE
         /\ UNCHANGED <<seen, blocked>>
         /\ IF back THEN Goto("bg_select") /\ cur' = cur + 1
                    ELSE Raise("Timeout", "bg_finally") /\ UNCHANGED cur
  /\ UNCHANGED <<outerVars, config, attempt, tried, candidates, retries, selected,
                 addrBlock, sessionVars, retryVars, missed, appended>>

\* if not address_worked: raise Exception("Could not find a valid address ...")
bg_no_address ==
  /\ pc = "bg_select"
  /\ cur > Len(candidates)
  /\ Raise("Could not find a valid address", "bg_finally")
  /\ UNCHANGED <<outerVars, config, attempt, addrVars, sessionVars, retryVars, ghostVars>>

\* STEP 5-6: usage, Continue button, detect_blocking
bg_step6 ==
  /\ pc = "bg_step6"
  /\ \E continue_clicked \in BOOLEAN, text \in PageTexts :
       LET kind == bg_detect_blocking(text) IN
       IF ~continue_clicked THEN
         /\ Raise("Could not find Continue button", "bg_finally")
         /\ UNCHANGED blocked
       ELSE IF kind # "" THEN
         /\ Raise("Blocked after Continue", "bg_finally")
         /\ NoteBlocked(kind)
       ELSE
         /\ Goto("bg_results")
         /\ UNCHANGED blocked
  /\ UNCHANGED <<outerVars, config, attempt, addrVars, sessionVars, retryVars, seen,
                 missed, appended>>

\* wait for "See tariff details"; a timeout is only printed
bg_results ==
  /\ pc = "bg_results"
  /\ \E visible \in BOOLEAN :
       IF visible THEN seen' = seen \cup {"tariff_results"} /\ UNCHANGED missed
                  ELSE missed' = missed \cup {"tariff_results"} /\ UNCHANGED seen
  /\ Goto("bg_step7")
  /\ UNCHANGED <<outerVars, config, attempt, addrVars, sessionVars, retryVars, blocked,
                 appended>>

\* STEP 7: click "See tariff details", wait for "Gas tariff costs" (both
\* swallowed), then page.screenshot outside any inner try
bg_step7 ==
  /\ pc = "bg_step7"
  /\ \E expanded \in BOOLEAN, shot \in BOOLEAN :
       /\ IF expanded THEN seen' = seen \cup {"tariff_details"} /\ UNCHANGED missed
                       ELSE missed' = missed \cup {"tariff_details"} /\ UNCHANGED seen
       /\ IF shot THEN Goto("bg_step8") ELSE Raise("driver error", "bg_finally")
  /\ UNCHANGED <<outerVars, config, attempt, addrVars, sessionVars, retryVars, blocked,
                 appended>>

\* extract_tariff_rates(page_text): any of the four groups may match
bg_extract_tariff_rates == Quotes

\* STEP 8: append only if both unit rates were found
bg_step8 ==
  /\ pc = "bg_step8"
  /\ \E read \in BOOLEAN, rates \in bg_extract_tariff_rates :
       IF ~read THEN
         /\ Raise("driver error", "bg_finally")
         /\ UNCHANGED appended
       ELSE IF rates.gas /\ rates.elec THEN
         /\ result' = [result EXCEPT !.tariffs = Append(@, rates)]
         /\ appended' = TRUE
         /\ pc' = "bg_finally"
       ELSE
         /\ Raise("Could not extract rates", "bg_finally")
         /\ UNCHANGED appended
  /\ UNCHANGED <<outerVars, config, attempt, addrVars, sessionVars, retryVars, seen,
                 missed, blocked>>

\* finally: context.close(); return result
bg_finally ==
  /\ pc = "bg_finally"
  /\ CloseContext
  /\ JourneyReturn

\* ------------------------------------------------------ address filters
\* eon_next_scraper_v5.get_valid_addresses / ovo_scraper_v1.get_valid_addresses:
\* indices >= start_index, not tried, text starts with a digit, no skip word
get_valid_addresses_keeps_tried(opts, start_idx, tried_addresses) ==
  SortedSeq({i \in start_idx..(Len(opts) - 1) :
               /\ StartsWithDigit(Opt(opts, i))
               /\ ~HasSkipWord(Opt(opts, i))})

get_valid_addresses(opts, start_idx, tried_addresses) ==
  SortedSeq({i \in start_idx..(Len(opts) - 1) :
               /\ i \notin tried_addresses
               /\ StartsWithDigit(Opt(opts, i))
               /\ ~HasSkipWord(Opt(opts, i))})

\* eon_next_scraper_v6_playwright.is_residential_address
is_residential_address(k) == StartsWithDigit(k) /\ ~HasSkipWord(k)

\* phrases of the per-address popups the E.ON journeys look for
AddrIssues == {"chrome_app", "already_supply", "business_meter",
               "prepayment", "missing_out"}
AddrTexts == {t \in SUBSET AddrIssues : Cardinality(t) <= MaxPhrases}

\* ----------------------------------------------- eon5: scrape_eon (v5)
\* STEP 1-2: driver.get; enter_postcode
eon5_step1 ==
  /\ pc = "eon5_step1"
  /\ \E loaded \in BOOLEAN, found \in BOOLEAN :
       IF ~loaded THEN
         /\ Raise("driver error", "eon5_end")
         /\ UNCHANGED <<seen, missed>>
       ELSE IF ~found THEN
         /\ Raise("Could not find postcode input", "eon5_end")
         /\ missed' = missed \cup {"postcode_input"}
         /\ UNCHANGED seen
       ELSE
         /\ Goto("eon5_step3")
         /\ seen' = seen \cup {"postcode_input"}
         /\ UNCHANGED missed
  /\ UNCHANGED <<outerVars, config, attempt, addrVars, sessionVars, retryVars, blocked,
                 appended>>

\* STEP 3: wait for the <select>; valid_addresses = get_valid_addresses(...)
eon5_step3 ==
  /\ pc = "eon5_step3"
  /\ \E present \in BOOLEAN :
       LET valid_addresses == get_valid_addresses(options, EON5_DefaultStart, tried) IN
       IF ~present THEN
         /\ Raise("Address dropdown did not appear", "eon5_end")
         /\ missed' = missed \cup {"dropdown"}
         /\ UNCHANGED <<seen, candidates, cur>>
       ELSE IF valid_addresses = <<>> THEN
         /\ Raise("No valid residential addresses found", "eon5_end")
         /\ seen' = seen \cup {"dropdown"}
         /\ UNCHANGED <<missed, candidates, cur>>
       ELSE
         /\ Goto("eon5_select")
         /\ seen' = seen \cup {"dropdown"}
         /\ candidates' = Prefix(valid_addresses, Min(EON5_MaxTries, Len(valid_addresses)))
         /\ cur' = 1
         /\ UNCHANGED missed
  /\ UNCHANGED <<outerVars, config, attempt, tried, retries, selected, addrBlock,
                 sessionVars, retryVars, blocked, appended>>

\* loop head: tried_addresses.add(addr_idx); select.select_by_index(addr_idx)
eon5_select ==
  /\ pc = "eon5_select"
  /\ cur <= Len(candidates)
  /\ tried' = tried \cup {candidates[cur]}
  /\ addrBlock' = ""
  /\ \E ok \in BOOLEAN :
       IF ok THEN /\ selected' = Append(selected, candidates[cur])
                  /\ Goto("eon5_popups")
             ELSE /\ UNCHANGED selected
                  /\ Raise("driver error", "eon5_end")
  /\ UNCHANGED <<outerVars, config, attempt, candidates, cur, retries, sessionVars,
                 baseWaits, lastWait, outcomes, ghostVars>>
  /\ NotePick

\* the four popup checks after the selection, in source order; every branch
\* re-finds the dropdown (re-entering the postcode if needed) and continues
eon5_popups ==
  /\ pc = "eon5_popups"
  /\ \E text \in AddrTexts, recovered \in BOOLEAN :
       IF "chrome_app" \in text THEN
         /\ UNCHANGED addrBlock
         /\ IF recovered THEN Goto("eon5_select") /\ cur' = cur + 1
                         ELSE Raise("Could not find postcode input", "eon5_end")
                              /\ UNCHANGED cur
       ELSE IF "already_supply" \in text THEN
         /\ addrBlock' = "already_customer"
         /\ IF recovered THEN Goto("eon5_select") /\ cur' = cur + 1
                         ELSE Raise("driver error", "eon5_end") /\ UNCHANGED cur
       ELSE IF "business_meter" \in text THEN
         /\ addrBlock' = "business_meter"
         /\ IF recovered THEN Goto("eon5_select") /\ cur' = cur + 1
                         ELSE Raise("driver error", "eon5_end") /\ UNCHANGED cur
       ELSE IF "prepayment" \in text THEN
         \* the recovery sits in a try whose except is 'pass': when it
         \* fails the code falls through to the option steps
         /\ addrBlock' = "prepayment_meter"
         /\ IF recovered THEN Goto("eon5_select") /\ cur' = cur + 1
                         ELSE Goto("eon5_prices") /\ UNCHANGED cur
       ELSE
         /\ UNCHANGED <<addrBlock, cur>>
         /\ Goto("eon5_prices")
  /\ UNCHANGED <<outerVars, config, attempt, tried, candidates, retries, selected,
                 sessionVars, retryVars, ghostVars>>

\* STEP 4-7 and the two checks after "see prices"
eon5_prices ==
  /\ pc = "eon5_prices"
  /\ \E is_empty \in BOOLEAN, already \in BOOLEAN, recovered \in BOOLEAN :
       IF is_empty THEN
         /\ UNCHANGED addrBlock
         /\ IF recovered THEN Goto("eon5_select") /\ cur' = cur + 1
                         ELSE Raise("driver error", "eon5_end") /\ UNCHANGED cur
       ELSE IF already THEN
         /\ addrBlock' = "already_customer"
         /\ Goto("eon5_select")
         /\ cur' = cur + 1
       ELSE
         \* success = True; break
         /\ UNCHANGED <<addrBlock, cur>>
         /\ Goto("eon5_step8")
  /\ UNCHANGED <<outerVars, config, attempt, tried, candidates, retries, selected,
                 sessionVars, retryVars, ghostVars>>

\* if not success: raise Exception("No valid address found after multiple tries")
eon5_no_address ==
  /\ pc = "eon5_select"
  /\ cur > Len(candidates)
  /\ Raise("No valid address found after multiple tries", "eon5_end")
  /\ UNCHANGED <<outerVars, config, attempt, addrVars, sessionVars, retryVars, ghostVars>>

\* STEP 8: expand details (swallowed); driver.save_screenshot
eon5_step8 ==
  /\ pc = "eon5_step8"
  /\ \E shot \in BOOLEAN :
       IF shot THEN Goto("eon5_step9") ELSE Raise("driver error", "eon5_end")
  /\ UNCHANGED <<outerVars, config, attempt, addrVars, sessionVars, retryVars, ghostVars>>

\* extract_rates(driver): every key is optional; errors give a partial dict
eon5_extract_rates == Quotes

\* 'if rates:' is the truth value of the dict
eon5_accepts(rates) == ~EmptyDict(rates)

\* STEP 9: rates = extract_rates(driver); if rates: append else error;
\* then result['url'] = driver.current_url, still inside the try
eon5_step9 ==
  /\ pc = "eon5_step9"
  /\ \E rates \in eon5_extract_rates, url_ok \in BOOLEAN :
       LET r1 == IF eon5_accepts(rates)
                   THEN [result EXCEPT !.tariffs = Append(@, rates)]
                   ELSE [result EXCEPT !.error = "Could not extract rates"]
       IN /\ appended' = eon5_accepts(rates)
          /\ result' = IF url_ok THEN r1 ELSE [r1 EXCEPT !.error = "driver error"]
          /\ pc' = "eon5_end"
  /\ UNCHANGED <<outerVars, config, attempt, addrVars, sessionVars, retryVars, seen,
                 missed, blocked>>

\* result['tried_addresses'] = list(tried_addresses); return result, tried
eon5_end ==
  /\ pc = "eon5_end"
  /\ JourneyReturn
  /\ UNCHANGED sessionVars

eon5_Next ==
  \/ eon5_step1 \/ eon5_step3 \/ eon5_select \/ eon5_popups \/ eon5_prices
  \/ eon5_no_address \/ eon5_step8 \/ eon5_step9 \/ eon5_end

\* ------------------------------------- eon6: scrape_eon (v6, Playwright)
eon6_context ==
  /\ pc = "eon6_context"
  /\ NewContext("eon6_step1", "eon6_finally")
  /\ UNCHANGED <<outerVars, config, attempt, addrVars, retryVars, ghostVars>>

\* STEP 1-2: page.goto; find, click and fill the postcode input
eon6_step1 ==
  /\ pc = "eon6_step1"
  /\ \E loaded \in BOOLEAN, visible \in BOOLEAN :
       IF ~loaded THEN
         /\ Raise("Timeout", "eon6_finally")
         /\ UNCHANGED <<seen, missed>>
       ELSE IF ~visible THEN
         /\ Raise("Timeout", "eon6_finally")
         /\ missed' = missed \cup {"postcode_input"}
         /\ UNCHANGED seen
       ELSE
         /\ Goto("eon6_step3")
         /\ seen' = seen \cup {"postcode_input"}
         /\ UNCHANGED missed
  /\ UNCHANGED <<outerVars, config, attempt, addrVars, sessionVars, retryVars, blocked,
                 appended>>

\* STEP 3: address_dropdown.wait_for; options = ...all(); tried_addresses = set()
eon6_step3 ==
  /\ pc = "eon6_step3"
  /\ \E visible \in BOOLEAN :
       IF visible THEN
         /\ Goto("eon6_scan")
         /\ seen' = seen \cup {"dropdown"}
         /\ cur' = EON6_DefaultStart
         /\ UNCHANGED missed
       ELSE
         /\ Raise("Address dropdown did not appear", "eon6_finally")
         /\ missed' = missed \cup {"dropdown"}
         /\ UNCHANGED <<seen, cur>>
  /\ UNCHANGED <<outerVars, config, attempt, tried, candidates, retries, selected,
                 addrBlock, sessionVars, retryVars, blocked, appended>>

\* upper end of 'for i in range(start_index, min(len(options), start_index + 20))'
eon6_range(opts, start) == Min(Len(opts), start + EON6_Scan)

\* one iteration of the address loop: skip tried / non-residential options,
\* otherwise select option i and look at the popups and the tariff check;
\* every exception inside the iteration is caught and the loop continues
\* (a select_option that raises leaves the loop as a failed tariff check does)
eon6_scan ==
  /\ pc = "eon6_scan"
  /\ cur < eon6_range(options, EON6_DefaultStart)
  /\ IF cur \in tried \/ ~is_residential_address(Opt(options, cur)) THEN
       /\ cur' = cur + 1
       /\ Goto("eon6_scan")
       /\ UNCHANGED <<tried, selected, addrBlock>>
     ELSE
       /\ tried' = tried \cup {cur}
       /\ selected' = Append(selected, cur)
       /\ \E text \in AddrTexts, tariff_visible \in BOOLEAN :
            IF "already_supply" \in text THEN
              addrBlock' = "already_customer" /\ cur' = cur + 1 /\ Goto("eon6_scan")
            ELSE IF "business_meter" \in text THEN
              addrBlock' = "business_meter" /\ cur' = cur + 1 /\ Goto("eon6_scan")
            ELSE IF "prepayment" \in text THEN
              addrBlock' = "prepayment_meter" /\ cur' = cur + 1 /\ Goto("eon6_scan")
            ELSE IF tariff_visible THEN
              addrBlock' = "" /\ UNCHANGED cur /\ Goto("eon6_step4")
            ELSE
              addrBlock' = "" /\ cur' = cur + 1 /\ Goto("eon6_scan")
  /\ UNCHANGED <<outerVars, config, attempt, candidates, retries, sessionVars, baseWaits, lastWait, outcomes,
                 ghostVars>>
  /\ NotePick

\* if not address_selected: raise Exception("No valid address found after ...")
eon6_no_address ==
  /\ pc = "eon6_scan"
  /\ cur >= eon6_range(options, EON6_DefaultStart)
  /\ Raise("No valid address found", "eon6_finally")
  /\ UNCHANGED <<outerVars, config, attempt, addrVars, sessionVars, retryVars, ghostVars>>

\* the v6 extraction: exit_fee defaults to "£0"; name and rates by regex
eon6_extract == {q \in Quotes : q.exit}

\* STEP 4: screenshot, inner_text, regex extraction;
\* 'if tariff_name and (elec_unit or gas_unit)'
eon6_step4 ==
  /\ pc = "eon6_step4"
  /\ \E read \in BOOLEAN, q \in eon6_extract :
       IF ~read THEN
         /\ Raise("Timeout", "eon6_finally")
         /\ UNCHANGED appended
       ELSE IF q.name /\ (q.elec \/ q.gas) THEN
         /\ result' = [result EXCEPT !.tariffs = Append(@, q)]
         /\ appended' = TRUE
         /\ pc' = "eon6_finally"
       ELSE
         /\ Raise("Could not extract tariff rates", "eon6_finally")
         /\ UNCHANGED appended
  /\ UNCHANGED <<outerVars, config, attempt, addrVars, sessionVars, retryVars, seen,
                 missed, blocked>>

eon6_finally ==
  /\ pc = "eon6_finally"
  /\ CloseContext
  /\ JourneyReturn

eon6_Next ==
  \/ eon6_context \/ eon6_step1 \/ eon6_step3 \/ eon6_scan \/ eon6_no_address
  \/ eon6_step4 \/ eon6_finally

\* ------------------------------------------- ovo: scrape_ovo_tariffs
ovo_context ==
  /\ pc = "ovo_context"
  /\ NewContext("ovo_step1", "ovo_finally")
  /\ UNCHANGED <<outerVars, config, attempt, addrVars, retryVars, ghostVars>>

\* STEP 1-2: page.goto; detect_blocking; postcode input; Find Address
ovo_step1 ==
  /\ pc = "ovo_step1"
  /\ \E loaded \in BOOLEAN, text \in PageTexts, found \in BOOLEAN :
       LET kind == ovo_detect_blocking(text) IN
       IF ~loaded THEN
         /\ Raise("driver error", "ovo_finally")
         /\ UNCHANGED <<blocked, seen, missed>>
       ELSE IF kind # "" THEN
         /\ Raise("Blocked on page load", "ovo_finally")
         /\ NoteBlocked(kind)
         /\ UNCHANGED <<seen, missed>>
       ELSE IF ~found THEN
         /\ Raise("Could not find postcode input", "ovo_finally")
         /\ missed' = missed \cup {"postcode_input"}
         /\ UNCHANGED <<blocked, seen>>
       ELSE
         /\ Goto("ovo_step3")
         /\ seen' = seen \cup {"postcode_input"}
         /\ UNCHANGED <<blocked, missed>>
  /\ UNCHANGED <<outerVars, config, attempt, addrVars, sessionVars, retryVars, appended>>

\* target_idx = base; while target_idx in tried_addresses: target_idx += 1
RECURSIVE ovo_target_idx(_, _)
ovo_target_idx(base, tried_addresses) ==
  IF base \in tried_addresses THEN ovo_target_idx(base + 1, tried_addresses)
  ELSE base

\* STEP 3: dropdown trigger; first untried index from start_index by keyboard;
\* an "already supply" / "existing customer" text raises
ovo_step3 ==
  /\ pc = "ovo_step3"
  /\ \E trigger \in BOOLEAN, ok \in BOOLEAN, already \in BOOLEAN :
       LET target_idx == ovo_target_idx(OVO_DefaultStart, tried) IN
       IF ~trigger THEN
         /\ Raise("Could not find address dropdown trigger", "ovo_finally")
         /\ missed' = missed \cup {"dropdown"}
         /\ UNCHANGED <<seen, tried, selected, addrBlock>>
       ELSE
         /\ seen' = seen \cup {"dropdown"}
         /\ UNCHANGED missed
         /\ tried' = tried \cup {target_idx}
         /\ IF ~ok THEN
              /\ Raise("driver error", "ovo_finally")
              /\ UNCHANGED <<selected, addrBlock>>
            ELSE
              /\ selected' = Append(selected, target_idx)
              /\ IF already
                   THEN /\ addrBlock' = "already_customer"
                        /\ Raise("Already customer - need different address",
                                 "ovo_finally")
                   ELSE /\ addrBlock' = ""
                        /\ Goto("ovo_step4")
  /\ UNCHANGED <<outerVars, config, attempt, candidates, cur, retries, sessionVars,
                 baseWaits, lastWait, outcomes, blocked, appended>>
  /\ NotePick

\* STEP 4 going round for as long as the page shows a meter error
ovo_step4_without_maximum ==
  /\ pc = "ovo_step4"
  /\ \E meter_error \in BOOLEAN, back_ok \in BOOLEAN, trigger \in BOOLEAN :
       IF meter_error THEN
         LET target_idx == ovo_target_idx(OVO_DefaultStart + retries + 1, tried) IN
         /\ retries' = retries + 1
         /\ addrBlock' = "unsupported_meter"
         /\ IF ~back_ok THEN
              /\ Raise("Meter issue - could not go back", "ovo_finally")
              /\ UNCHANGED <<tried, selected>>
            ELSE IF ~trigger THEN
              /\ Raise("Failed to select new address", "ovo_finally")
              /\ UNCHANGED <<tried, selected>>
            ELSE
              /\ tried' = tried \cup {target_idx}
              /\ selected' = Append(selected, target_idx)
              /\ Goto("ovo_step4")
       ELSE IF meter_error THEN
         /\ Raise("All addresses have meter issues", "ovo_finally")
         /\ addrBlock' = "unsupported_meter"
         /\ UNCHANGED <<tried, selected, retries>>
       ELSE
         /\ Goto("ovo_step6")
         /\ addrBlock' = ""
         /\ UNCHANGED <<tried, selected, retries>>
  /\ UNCHANGED <<outerVars, config, attempt, candidates, cur, sessionVars, baseWaits, lastWait, outcomes,
                 ghostVars>>
  /\ NotePick

\* STEP 4: while the page shows a meter error and address_retry_count <
\* max_address_retries: go back and select index start_index + count (skipping
\* tried ones); afterwards a remaining meter error raises
ovo_step4 ==
  /\ pc = "ovo_step4"
  /\ \E meter_error \in BOOLEAN, back_ok \in BOOLEAN, trigger \in BOOLEAN :
       IF meter_error /\ retries < OVO_max_address_retries THEN
         LET target_idx == ovo_target_idx(OVO_DefaultStart + retries + 1, tried) IN
         /\ retries' = retries + 1
         /\ addrBlock' = "unsupported_meter"
         /\ IF ~back_ok THEN
              /\ Raise("Meter issue - could not go back", "ovo_finally")
              /\ UNCHANGED <<tried, selected>>
            ELSE IF ~trigger THEN
              /\ Raise("Failed to select new address", "ovo_finally")
              /\ UNCHANGED <<tried, selected>>
            ELSE
              /\ tried' = tried \cup {target_idx}
              /\ selected' = Append(selected, target_idx)
              /\ Goto("ovo_step4")
       ELSE IF meter_error THEN
         /\ Raise("All addresses have meter issues", "ovo_finally")
         /\ addrBlock' = "unsupported_meter"
         /\ UNCHANGED <<tried, selected, retries>>
       ELSE
         /\ Goto("ovo_step6")
         /\ addrBlock' = ""
         /\ UNCHANGED <<tried, selected, retries>>
  /\ UNCHANGED <<outerVars, config, attempt, candidates, cur, sessionVars, baseWaits, lastWait, outcomes,
                 ghostVars>>
  /\ NotePick

\* extract_rates_from_page: only tariff_name and exit_fee are ever set
extract_rates_from_page == {q \in Quotes : ~q.elec /\ ~q.gas}

\* extract_rates_from_modal: every key is optional
extract_rates_from_modal == Quotes

\* STEP 5-6: usage page (optional); wait for the tariff page, else raise;
\* without "View details" links: rates = extract_rates_from_page(page);
\* 'if rates: append' and no else
ovo_step6 ==
  /\ pc = "ovo_step6"
  /\ \E tariff_page_found \in BOOLEAN, view_links \in BOOLEAN,
        rates \in extract_rates_from_page :
       IF ~tariff_page_found THEN
         /\ Raise("Could not find tariff selection page", "ovo_finally")
         /\ missed' = missed \cup {"tariff_page"}
         /\ UNCHANGED <<seen, appended>>
       ELSE
         /\ seen' = seen \cup {"tariff_page"}
         /\ UNCHANGED missed
         /\ IF view_links THEN
              /\ Goto("ovo_step7")
              /\ UNCHANGED appended
            ELSE
              /\ pc' = "ovo_finally"
              /\ appended' = ~EmptyDict(rates)
              /\ result' = IF ~EmptyDict(rates)
                             THEN [result EXCEPT !.tariffs = Append(@, rates)]
                             ELSE result
  /\ UNCHANGED <<outerVars, config, attempt, addrVars, sessionVars, retryVars, blocked>>

\* STEP 7: open the first "View details", rates = extract_rates_from_modal;
\* 'if rates: append'; the whole step sits in a try that only prints
ovo_step7 ==
  /\ pc = "ovo_step7"
  /\ \E opened \in BOOLEAN, rates \in extract_rates_from_modal :
       /\ pc' = "ovo_finally"
       /\ appended' = (opened /\ ~EmptyDict(rates))
       /\ result' = IF opened /\ ~EmptyDict(rates)
                      THEN [result EXCEPT !.tariffs = Append(@, rates)]
                      ELSE result
  /\ UNCHANGED <<outerVars, config, attempt, addrVars, sessionVars, retryVars, seen,
                 missed, blocked>>

ovo_finally ==
  /\ pc = "ovo_finally"
  /\ CloseContext
  /\ JourneyReturn

ovo_Next ==
  \/ ovo_context \/ ovo_step1 \/ ovo_step3 \/ ovo_step4 \/ ovo_step6
  \/ ovo_step7 \/ ovo_finally

bg_Next ==
  \/ bg_context \/ bg_step1 \/ bg_step2 \/ bg_dropdown \/ bg_step3
  \/ bg_select \/ bg_check \/ bg_no_address \/ bg_step6 \/ bg_results
  \/ bg_step7 \/ bg_step8 \/ bg_finally

retry_Next ==
  \/ retry_StartAttempt \/ retry_ReturnSuccess \/ retry_Backoff
  \/ retry_Wake \/ retry_ReturnLast

Next == retry_Next \/ bg_Next \/ eon5_Next \/ eon6_Next \/ ovo_Next

Spec == Init /\ [][Next]_vars

\* ------------------------------------------------------- batch runners
\* One behaviour = one run_scraper / run_all_regions call of one supplier.
\* A task (scrape_with_retry or scrape_edf for one region) is one step of
\* the region loop; its outcome is what the runner tests: result.get('tariffs').
BatchSuppliers == {"edf", "bg", "sp", "eon5", "eon6", "fuse"}

\* no task is running
TaskIdle ==
  /\ max_attempts = 1
  /\ options = <<>>
  /\ attempt = 0
  /\ result = NewResult(0)
  /\ tried = {}
  /\ candidates = <<>>
  /\ cur = 0
  /\ retries = 0
  /\ selected = <<>>
  /\ context = 0
  /\ sessions = 0
  /\ closed = {}
  /\ sessionOf = <<>>
  /\ baseWaits = <<>>
  /\ lastWait = 0
  /\ seen = {}
  /\ missed = {}
  /\ blocked = ""
  /\ addrBlock = ""
  /\ appended = FALSE
  /\ outcomes = <<>>
  /\ picked = <<>>
  /\ start_index = 0
  /\ page_text = {}
  /\ UnitIdle

taskVars == <<max_attempts, options, attempt, result, tried, candidates, cur,
              retries, selected, context, sessions, closed, sessionOf,
              baseWaits, lastWait, seen, missed, blocked, addrBlock, appended,
              outcomes, picked, start_index, page_text, unitVars, runVars>>

\* results = []; consecutive_failures = 0; early_abort = False
BatchInit ==
  /\ supplier \in BatchSuppliers
  /\ postcodes \in 1..MaxRegions
  /\ wait_secs \in 0..MaxWait
  /\ actual_wait = 0
  /\ pc = "batch_loop"
  /\ results = <<>>
  /\ partial = <<>>
  /\ consecutive_failures = 0
  /\ early_abort = FALSE
  /\ warned = FALSE
  /\ TaskIdle
  /\ AggIdle
  /\ RunIdle

\* the entry appended for the next region of the loop
RegionResult(ok) == [region |-> Len(results) + 1, ok |-> ok]

\* i < len(batch) - 1 fails for region k: k closes its batch of three
\* (bg's fifth slice takes every region after the twelfth)
ClosesBatch(k) ==
  \/ k = postcodes
  \/ k % BatchSize = 0 /\ (supplier # "bg" \/ k <= BG_LastSlice)

\* wait_secs + random.randint(-5, 10), E.ON: wait_secs + random.randint(-10, 20)
region_waits ==
  IF supplier \in {"eon5", "eon6"}
    THEN {wait_secs + j : j \in EON_JitterLow..EON_JitterHigh}
    ELSE {wait_secs + j : j \in JitterLow..JitterHigh}

\* batch_wait = 90 + random.randint(0, 30); sp: 60 + ...; E.ON: 120 + randint(0, 60)
batch_waits ==
  CASE supplier = "bg" -> {BG_BatchWait + j : j \in 0..BatchJitterHigh}
    [] supplier = "sp" -> {SP_BatchWait + j : j \in 0..BatchJitterHigh}
    [] OTHER -> {EON_BatchWait + j : j \in 0..EON_BatchJitterHigh}

\* time.sleep(w): a negative argument raises ValueError, which no runner
\* catches (eon5's finally closes the driver and lets it pass)
sleep(w) ==
  /\ actual_wait' = w
  /\ pc' = IF w < 0 THEN "batch_raised" ELSE "batch_loop"

\* the iteration ends without a delay
no_sleep == UNCHANGED <<actual_wait, pc>>

\* the end of region k's iteration in a runner that works in batches
batched_wait(k) ==
  IF ~ClosesBatch(k) THEN \E w \in region_waits : sleep(w)
  ELSE IF k < postcodes THEN \E w \in batch_waits : sleep(w)
  ELSE no_sleep

\* edf run_all_regions: result = scrape_edf(...); results.append(result);
\* the partial file is rewritten after every region.  scrape_edf creates its
\* context before its try, so a driver error there leaves run_all_regions.
edf_run_all_regions ==
  /\ pc = "batch_loop"
  /\ supplier = "edf"
  /\ Len(results) < postcodes
  /\ \E task \in {"tariffs", "no_tariffs", "raises"} :
       IF task = "raises" THEN
         /\ pc' = "batch_raised"
         /\ UNCHANGED <<results, partial, actual_wait>>
       ELSE
         /\ results' = Append(results, RegionResult(task = "tariffs"))
         /\ partial' = Append(results, RegionResult(task = "tariffs"))
         /\ IF Len(results) + 1 < postcodes
              THEN \E w \in region_waits : sleep(w)
              ELSE no_sleep
  /\ UNCHANGED <<aggVars, supplier, postcodes, consecutive_failures, early_abort,
                 warned, wait_secs, taskVars>>

\* fuse run_scraper: append, then always rewrite the partial file;
\* wait = random.randint(20, 35)
fuse_run_scraper ==
  /\ pc = "batch_loop"
  /\ supplier = "fuse"
  /\ Len(results) < postcodes
  /\ \E ok \in BOOLEAN :
       /\ results' = Append(results, RegionResult(ok))
       /\ partial' = Append(results, RegionResult(ok))
  /\ IF Len(results) + 1 < postcodes
       THEN \E w \in FUSE_WaitLow..FUSE_WaitHigh : sleep(w)
       ELSE no_sleep
  /\ UNCHANGED <<aggVars, supplier, postcodes, consecutive_failures, early_abort,
                 warned, wait_secs, taskVars>>

\* bg run_scraper: append; the partial file is rewritten only on success;
\* the counter only prints a warning
bg_run_scraper ==
  /\ pc = "batch_loop"
  /\ supplier = "bg"
  /\ Len(results) < postcodes
  /\ \E ok \in BOOLEAN :
       LET failures == IF ok THEN 0 ELSE consecutive_failures + 1 IN
       /\ results' = Append(results, RegionResult(ok))
       /\ partial' = IF ok THEN Append(results, RegionResult(ok)) ELSE partial
       /\ consecutive_failures' = failures
       /\ warned' = (warned \/ (failures >= BG_WarnFailures
                                /\ Len(results) + 1 <= BG_WarnResults))
  /\ batched_wait(Len(results) + 1)
  /\ UNCHANGED <<aggVars, supplier, postcodes, early_abort, wait_secs, taskVars>>

\* eon5 run_scraper: append; partial file on success; no counter
eon5_run_scraper ==
  /\ pc = "batch_loop"
  /\ supplier = "eon5"
  /\ Len(results) < postcodes
  /\ \E ok \in BOOLEAN :
       /\ results' = Append(results, RegionResult(ok))
       /\ partial' = IF ok THEN Append(results, RegionResult(ok)) ELSE partial
  /\ batched_wait(Len(results) + 1)
  /\ UNCHANGED <<aggVars, supplier, postcodes, consecutive_failures, early_abort,
                 warned, wait_secs, taskVars>>

\* eon6 run_scraper: append; no partial file; the counter only warns
eon6_run_scraper ==
  /\ pc = "batch_loop"
  /\ supplier = "eon6"
  /\ Len(results) < postcodes
  /\ \E ok \in BOOLEAN :
       LET failures == IF ok THEN 0 ELSE consecutive_failures + 1 IN
       /\ results' = Append(results, RegionResult(ok))
       /\ consecutive_failures' = failures
       /\ warned' = (warned \/ (failures >= EON6_WarnFailures
                                /\ Len(results) + 1 <= EON6_WarnResults))
  /\ batched_wait(Len(results) + 1)
  /\ UNCHANGED <<aggVars, supplier, postcodes, partial, early_abort, wait_secs,
                 taskVars>>

\* sp run_scraper: append; partial file on success; three failures among the
\* first four results set early_abort and break out of both loops, before
\* either delay
sp_run_scraper ==
  /\ pc = "batch_loop"
  /\ supplier = "sp"
  /\ Len(results) < postcodes
  /\ ~early_abort
  /\ \E ok \in BOOLEAN :
       LET failures == IF ok THEN 0 ELSE consecutive_failures + 1
           abort == (failures >= SP_AbortFailures
                     /\ Len(results) + 1 <= SP_AbortResults) IN
       /\ results' = Append(results, RegionResult(ok))
       /\ partial' = IF ok THEN Append(results, RegionResult(ok)) ELSE partial
       /\ consecutive_failures' = failures
       /\ early_abort' = abort
       /\ IF abort THEN no_sleep ELSE batched_wait(Len(results) + 1)
  /\ UNCHANGED <<aggVars, supplier, postcodes, warned, wait_secs, taskVars>>

\* the loops are left: browser.close(); return results
batch_return ==
  /\ pc = "batch_loop"
  /\ Len(results) = postcodes \/ early_abort
  /\ pc' = "batch_returned"
  /\ UNCHANGED <<supplier, postcodes, batchVars, aggVars, taskVars>>

BatchNext ==
  \/ edf_run_all_regions \/ fuse_run_scraper \/ bg_run_scraper
  \/ eon5_run_scraper \/ eon6_run_scraper \/ sp_run_scraper \/ batch_return

BatchSpec == BatchInit /\ [][BatchNext]_vars

\* ------------------------------------------- master runner (run_all_scrapers)
\* One behaviour = one run of main() seen from one supplier: the supplier's
\* script runs, its output is combined, failed records are re-run one
\* postcode at a time, the output is combined again and saved.
\* A file is its modification time, the run that wrote it and its records.
SCRAPERS ==
  [eon     |-> [script |-> "eon_next_scraper_v5.py", supplier_name |-> "eon_next",
                is_api |-> FALSE],
   bg      |-> [script |-> "bg_scraper_v10.py", supplier_name |-> "british_gas",
                is_api |-> FALSE],
   ovo     |-> [script |-> "ovo_scraper_v1.py", supplier_name |-> "ovo",
                is_api |-> FALSE],
   octopus |-> [script |-> "octopus_api_v1.py", supplier_name |-> "octopus",
                is_api |-> TRUE],
   sp      |-> [script |-> "scottish_power_scraper_v2.py",
                supplier_name |-> "scottish_power", is_api |-> FALSE],
   edf     |-> [script |-> "edf_scraper_v5_fixed.py", supplier_name |-> "edf",
                is_api |-> FALSE],
   fuse    |-> [script |-> "fuse_energy_scraper_v2_fixed.py",
                supplier_name |-> "fuse", is_api |-> FALSE]]

AggSuppliers == {"bg", "octopus", "fuse"}

\* SCRAPERS[name]["is_api"]
IsApi(s) == SCRAPERS[s].is_api

\* the "supplier" field of the results a script saves, "" when its results
\* have none: Fuse's say "fuse_energy", British Gas's and Octopus's have none
result_supplier(s) ==
  CASE s = "fuse" -> "fuse_energy"
    [] s = "eon" -> "eon_next"
    [] s = "sp" -> "scottish_power"
    [] s = "edf" -> "edf"
    [] OTHER -> ""

\* for name, config in SCRAPERS.items(): if config["supplier_name"] ==
\* supplier: ...; break -- the name found, "" when the loop finds none
find_scraper(supplier_field) ==
  LET found == {n \in DOMAIN SCRAPERS : SCRAPERS[n].supplier_name = supplier_field}
  IN IF found = {} THEN "" ELSE CHOOSE n \in found : TRUE

\* is_api as the retry phase works it out for a row: False unless a scraper
\* of that supplier name is found
row_is_api(r) ==
  LET n == find_scraper(r.supplier) IN IF n = "" THEN FALSE ELSE IsApi(n)

\* what a scraper's result holds: tariffs with all values, tariffs without
\* standing charges, tariffs with a name only, or no tariffs and an error
RowKinds == {"complete", "no_standing", "name_only", "error"}

\* files left in the directory by earlier runs
OldDirs ==
  {{}, {[mtime |-> 0, run |-> "old",
         data |-> [i \in 1..MaxAggRegions |-> [region |-> i, kind |-> "complete"]]]}}

AggInit ==
  /\ supplier \in AggSuppliers
  /\ postcodes \in 1..MaxAggRegions
  /\ pc = "agg_run"
  /\ files \in OldDirs
  /\ latest_file = NoFile
  /\ combined = <<>>
  /\ failed = <<>>
  /\ retry_runs = 0
  /\ supplier_stats = [total |-> 0, success |-> 0]
  /\ results = <<>>
  /\ partial = <<>>
  /\ consecutive_failures = 0
  /\ early_abort = FALSE
  /\ warned = FALSE
  /\ wait_secs = 0
  /\ actual_wait = 0
  /\ TaskIdle
  /\ RunIdle

\* get_latest_file: max(files, key=os.path.getmtime), None without files
get_latest_file(fs) ==
  IF fs = {} THEN NoFile
  ELSE CHOOSE f \in fs : \A g \in fs : g.mtime <= f.mtime

\* the row load_scraper_results makes of one result
normalize(r) ==
  [supplier |-> IF result_supplier(supplier) = ""
                  THEN SCRAPERS[supplier].supplier_name
                  ELSE result_supplier(supplier),
   region   |-> r.region,
   name     |-> r.kind # "error",
   unit     |-> r.kind \in {"complete", "no_standing"},
   standing |-> r.kind = "complete",
   error    |-> r.kind = "error"]

\* load_scraper_results: the rows of the file get_latest_file names
load_scraper_results(fs) ==
  LET f == get_latest_file(fs)
  IN [k \in 1..Len(f.data) |-> normalize(f.data[k])]

\* check_incomplete_data: the reason, "" for None
check_incomplete_data(r) ==
  IF r.error THEN "error"
  ELSE IF ~r.name THEN "missing tariff name"
  ELSE IF ~r.unit THEN "missing unit rates"
  ELSE IF ~r.standing THEN "missing standing charges"
  ELSE ""

\* the success test of save_combined_results' statistics
stats_success(r) == r.name /\ ~r.error

\* a script run writes <supplier>_tariffs_<timestamp>.json
WriteFile(run, data) ==
  files' = files \cup {[mtime |-> get_latest_file(files).mtime + 1,
                        run |-> run, data |-> data]}

\* run_scraper(name, config): the full batch; a run that dies writes nothing
agg_run_scraper ==
  /\ pc = "agg_run"
  /\ \E written \in BOOLEAN, kinds \in [1..postcodes -> RowKinds] :
       IF written
         THEN WriteFile("batch", [i \in 1..postcodes |->
                                    [region |-> i, kind |-> kinds[i]]])
         ELSE UNCHANGED files
  /\ pc' = "agg_combine"
  /\ UNCHANGED <<supplier, postcodes, latest_file, combined, failed,
                 retry_runs, supplier_stats, batchVars, taskVars>>

\* results = combine_results(...); failed = incomplete rows of non-API suppliers
agg_combine ==
  /\ pc = "agg_combine"
  /\ latest_file' = get_latest_file(files)
  /\ combined' = load_scraper_results(files)
  /\ failed' = SelectSeq(load_scraper_results(files),
                         LAMBDA r : ~row_is_api(r) /\ check_incomplete_data(r) # "")
  /\ pc' = "agg_retry"
  /\ UNCHANGED <<supplier, postcodes, files, retry_runs, supplier_stats,
                 batchVars, taskVars>>

\* for r, reason in failed: the scraper is looked up by the row's supplier;
\* without one the row is skipped ("Unknown supplier"), with one
\* subprocess.run([script, "--test", postcode])
agg_retry ==
  /\ pc = "agg_retry"
  /\ failed # <<>>
  /\ IF find_scraper(Head(failed).supplier) = ""
       THEN UNCHANGED <<files, retry_runs>>
       ELSE /\ \E written \in BOOLEAN, kind \in RowKinds :
                 IF written
                   THEN WriteFile("retry", <<[region |-> Head(failed).region,
                                              kind |-> kind]>>)
                   ELSE UNCHANGED files
            /\ retry_runs' = retry_runs + 1
  /\ failed' = Tail(failed)
  /\ UNCHANGED <<supplier, postcodes, pc, latest_file, combined,
                 supplier_stats, batchVars, taskVars>>

\* after the retries: results = combine_results(...) again (only if any failed)
agg_recombine ==
  /\ pc = "agg_retry"
  /\ failed = <<>>
  /\ IF retry_runs > 0
       THEN /\ latest_file' = get_latest_file(files)
            /\ combined' = load_scraper_results(files)
       ELSE UNCHANGED <<latest_file, combined>>
  /\ pc' = "agg_save"
  /\ UNCHANGED <<supplier, postcodes, files, failed, retry_runs,
                 supplier_stats, batchVars, taskVars>>

\* if results: save_combined_results(results) with its per-supplier statistics
agg_save ==
  /\ pc = "agg_save"
  /\ supplier_stats' =
       IF combined = <<>> THEN supplier_stats
       ELSE [total   |-> Len(combined),
             success |-> Cardinality({k \in 1..Len(combined) :
                                        stats_success(combined[k])})]
  /\ pc' = "agg_done"
  /\ UNCHANGED <<supplier, postcodes, files, latest_file, combined, failed,
                 retry_runs, batchVars, taskVars>>

AggNext ==
  \/ agg_run_scraper \/ agg_combine \/ agg_retry \/ agg_recombine \/ agg_save

AggSpec == AggInit /\ [][AggNext]_vars

\* ------------------------------------------------ candidate generation
\* The candidate generators as functions: the inputs are drawn in AddrInit and
\* one step applies the supplier's generator.  British Gas builds good_indices
\* inline and keeps no tried set; E.ON v5 and OVO define get_valid_addresses.
AddrSuppliers == {"bg", "eon5", "ovo"}

\* option lists: every list of up to MaxLen texts, and the long dropdowns
AddrOptionLists ==
  UNION {[1..n -> OptionKinds] : n \in 0..MaxLen}
    \cup {OptionList(pat, MaxOptions) : pat \in OptionPatterns}

AddrInit ==
  /\ supplier \in AddrSuppliers
  /\ options \in AddrOptionLists
  /\ start_index \in 0..2
  /\ tried \in IF supplier = "bg" THEN {{}} ELSE SUBSET (0..(MaxLen - 1))
  /\ candidates = <<>>
  /\ pc = "addr_call"
  /\ max_attempts = 1
  /\ attempt = 0
  /\ result = NewResult(0)
  /\ cur = 0
  /\ retries = 0
  /\ selected = <<>>
  /\ context = 0
  /\ sessions = 0
  /\ closed = {}
  /\ sessionOf = <<>>
  /\ baseWaits = <<>>
  /\ lastWait = 0
  /\ seen = {}
  /\ missed = {}
  /\ blocked = ""
  /\ addrBlock = ""
  /\ appended = FALSE
  /\ outcomes = <<>>
  /\ picked = <<>>
  /\ postcodes = 0
  /\ page_text = {}
  /\ UnitIdle
  /\ BatchIdle
  /\ AggIdle
  /\ RunIdle

addrOther == <<supplier, max_attempts, attempt, result, cur,
               retries, selected, context, sessions, closed, sessionOf,
               baseWaits, lastWait, seen, missed, blocked, addrBlock, appended,
               outcomes, picked, page_text, body, batchVars, aggVars, runVars>>
\* the arguments of the call
addrArgs == <<options, start_index, tried>>
addrFixed == <<addrOther, addrArgs>>

\* bg: good_indices as built in scrape_bg_tariffs
addr_bg_good_indices ==
  /\ pc = "addr_call"
  /\ supplier = "bg"
  /\ candidates' = bg_good_indices(options, start_index)
  /\ pc' = "addr_done"
  /\ UNCHANGED <<addrFixed, returned>>

\* eon5 / ovo: valid = get_valid_addresses(options, start_index, tried_addresses);
\* the function reads its arguments and builds a new list
addr_get_valid_addresses_marks_tried ==
  /\ pc = "addr_call"
  /\ supplier \in {"eon5", "ovo"}
  /\ candidates' = get_valid_addresses(options, start_index, tried)
  /\ tried' = tried \cup {candidates'[k] : k \in DOMAIN candidates'}
  /\ pc' = "addr_done"
  /\ UNCHANGED <<addrOther, options, start_index, returned>>

addr_get_valid_addresses ==
  /\ pc = "addr_call"
  /\ supplier \in {"eon5", "ovo"}
  /\ candidates' = get_valid_addresses(options, start_index, tried)
  /\ pc' = "addr_done"
  /\ UNCHANGED <<addrFixed, returned>>

\* a second call with the arguments of the first
addr_call_again ==
  /\ pc = "addr_done"
  /\ supplier \in {"eon5", "ovo"}
  /\ returned' = get_valid_addresses(options, start_index, tried)
  /\ pc' = "addr_done2"
  /\ UNCHANGED <<addrFixed, candidates>>

AddrNext == addr_bg_good_indices \/ addr_get_valid_addresses \/ addr_call_again

AddrSpec == AddrInit /\ [][AddrNext]_vars

\* ------------------------------------- scottish power: scrape_sp_tariffs
\* One behaviour = one scrape_with_retry call of Scottish Power.  The page
\* text is abstracted to the phrases the journey tests it for.
SpPhrases == {"mpan", "we need more information", "business address"}
SpTexts == SUBSET SpPhrases

has_mpan_prompt(text) == "mpan" \in text
has_info_blocker(text) == "we need more information" \in text
has_business_notice(text) == "business address" \in text

\* POSTCODE_START_INDEX.get(postcode, 1)
SpStartIndices == {SP_DefaultStart, 5, 10}

\* lengths of the dropdowns the journey is run against
SpOptionLengths == {0, 1, 3, MaxSpOptions}

SpInit ==
  /\ supplier = "sp"
  /\ max_attempts \in 1..MaxSpAttempts
  /\ \E pat \in OptionPatterns, n \in SpOptionLengths : options = OptionList(pat, n)
  /\ start_index \in SpStartIndices
  /\ pc = "retry_loop"
  /\ attempt = 0
  /\ result = NewResult(0)
  /\ tried = {}
  /\ candidates = <<>>
  /\ cur = 0
  /\ retries = 0
  /\ selected = <<>>
  /\ context = 0
  /\ sessions = 0
  /\ closed = {}
  /\ sessionOf = <<>>
  /\ baseWaits = <<>>
  /\ lastWait = 0
  /\ seen = {}
  /\ missed = {}
  /\ blocked = ""
  /\ addrBlock = ""
  /\ appended = FALSE
  /\ outcomes = <<>>
  /\ picked = <<>>
  /\ page_text = {}
  /\ UnitIdle
  /\ BatchIdle
  /\ AggIdle
  /\ RunIdle

spOuter == <<batchVars, aggVars, start_index, unitVars, runVars>>

\* for i in range(lo, min(len(options), hi)): skip tried indices, texts not
\* starting with a digit and texts with a skip word; -1 = the loop finds none
sp_first_valid_from_the_end(opts, lo, hi, tried_addresses) ==
  LET ok == {i \in lo..(Min(Len(opts), hi) - 1) :
               /\ i \notin tried_addresses
               /\ StartsWithDigit(Opt(opts, i))
               /\ ~HasSkipWord(Opt(opts, i))}
  IN IF ok = {} THEN -1 ELSE CHOOSE i \in ok : \A j \in ok : i >= j

sp_first_valid(opts, lo, hi, tried_addresses) ==
  LET ok == {i \in lo..(Min(Len(opts), hi) - 1) :
               /\ i \notin tried_addresses
               /\ StartsWithDigit(Opt(opts, i))
               /\ ~HasSkipWord(Opt(opts, i))}
  IN IF ok = {} THEN -1 ELSE CHOOSE i \in ok : \A j \in ok : i <= j

\* context, ... = create_stealth_context(browser); page = context.new_page()
sp_context ==
  /\ pc = "sp_context"
  /\ NewContext("sp_step1", "sp_finally")
  /\ UNCHANGED <<outerVars, config, attempt, addrVars, retryVars, ghostVars>>

\* STEP 1-3: page.goto; postcode input, else raise; address dropdown, else raise
sp_step1 ==
  /\ pc = "sp_step1"
  /\ \E loaded \in BOOLEAN, found \in BOOLEAN, dropdown \in BOOLEAN :
       IF ~loaded THEN
         /\ Raise("Timeout", "sp_finally")
         /\ UNCHANGED <<seen, missed>>
       ELSE IF ~found THEN
         /\ Raise("Could not find postcode input", "sp_finally")
         /\ missed' = missed \cup {"postcode_input"}
         /\ UNCHANGED seen
       ELSE IF ~dropdown THEN
         /\ Raise("Address dropdown did not appear", "sp_finally")
         /\ seen' = seen \cup {"postcode_input"}
         /\ missed' = missed \cup {"dropdown"}
       ELSE
         /\ Goto("sp_step3")
         /\ seen' = seen \cup {"postcode_input", "dropdown"}
         /\ UNCHANGED missed
  /\ UNCHANGED <<outerVars, config, attempt, addrVars, sessionVars, retryVars,
                 blocked, appended>>

\* STEP 3: the first valid untried option of range(start_idx, start_idx + 15);
\* a select_option that raises is swallowed and the loop goes on; without a
\* selection: address_select.select_option(index=1); tried_addresses.add(1)
sp_step3 ==
  /\ pc = "sp_step3"
  /\ LET i == sp_first_valid(options, start_index, start_index + SP_FirstScan, tried) IN
     \E ok \in BOOLEAN, text \in SpTexts :
       IF i = -1 THEN
         IF ok /\ Len(options) > SP_FallbackIndex THEN
           /\ selected' = Append(selected, SP_FallbackIndex)
           /\ tried' = tried \cup {SP_FallbackIndex}
           /\ page_text' = text
           /\ Goto("sp_mpan")
         ELSE
           /\ Raise("Timeout", "sp_finally")
           /\ UNCHANGED <<selected, tried, page_text>>
       ELSE
         /\ tried' = tried \cup {i}
         /\ IF ok THEN /\ selected' = Append(selected, i)
                       /\ page_text' = text
                       /\ Goto("sp_mpan")
                  ELSE /\ Goto("sp_step3")
                       /\ UNCHANGED <<selected, page_text>>
  /\ UNCHANGED <<spOuter, config, attempt, candidates, cur, retries, addrBlock,
                 sessionVars, baseWaits, lastWait, outcomes, ghostVars>>
  /\ NotePick

\* while <blocker>(page_text) and address_retry_count < max_address_retries:
\*   address_retry_count += 1; (click Back, else break;) re-find the dropdown,
\*   else break
sp_loop_head(head, cond, needs_back, after) ==
  /\ pc = head
  /\ IF cond /\ retries < SP_max_address_retries THEN
       /\ retries' = retries + 1
       /\ \E back_clicked \in BOOLEAN, found \in BOOLEAN :
            pc' = IF (needs_back /\ ~back_clicked) \/ ~found
                    THEN after ELSE head \o "_pick"
     ELSE
       /\ pc' = after
       /\ UNCHANGED retries
  /\ UNCHANGED <<outerVars, config, attempt, result, tried, candidates, cur,
                 selected, addrBlock, sessionVars, retryVars, ghostVars>>

\*   for i in range(start_idx + address_retry_count, min(len(options), start_idx + 20)):
\*     the first valid untried option is selected, and the page text read again;
\*   if not next_selected: break
sp_loop_pick(head, after) ==
  /\ pc = head \o "_pick"
  /\ LET i == sp_first_valid(options, start_index + retries,
                             start_index + SP_Rescan, tried) IN
     \E ok \in BOOLEAN, text \in SpTexts :
       IF i = -1 THEN
         /\ pc' = after
         /\ UNCHANGED <<tried, selected, page_text>>
       ELSE
         /\ tried' = tried \cup {i}
         /\ IF ok THEN /\ selected' = Append(selected, i)
                       /\ page_text' = text
                       /\ pc' = head
                  ELSE /\ pc' = head \o "_pick"
                       /\ UNCHANGED <<selected, page_text>>
  /\ UNCHANGED <<spOuter, config, attempt, result, candidates, cur, retries,
                 addrBlock, sessionVars, baseWaits, lastWait, outcomes, ghostVars>>
  /\ NotePick

\* "Handle MPAN - just pick different address from same page"
sp_mpan ==
  /\ pc = "sp_mpan"
  /\ sp_loop_head("sp_mpan", has_mpan_prompt(page_text), FALSE, "sp_info")
sp_mpan_pick ==
  /\ pc = "sp_mpan_pick"
  /\ sp_loop_pick("sp_mpan", "sp_info")

\* "Handle 'We need more information' page - need to click back"
sp_info ==
  /\ pc = "sp_info"
  /\ sp_loop_head("sp_info", has_info_blocker(page_text), TRUE, "sp_blocked")
sp_info_pick ==
  /\ pc = "sp_info_pick"
  /\ sp_loop_pick("sp_info", "sp_blocked")

\* if has_mpan_prompt(page_text) or has_info_blocker(page_text): raise
sp_blocked ==
  /\ pc = "sp_blocked"
  /\ IF has_mpan_prompt(page_text) \/ has_info_blocker(page_text)
       THEN Raise("All addresses blocked", "sp_finally")
       ELSE Goto("sp_step4")
  /\ UNCHANGED <<outerVars, config, attempt, addrVars, sessionVars, retryVars,
                 ghostVars>>

\* STEP 4: select the energy type; page_text = page.inner_text('body').lower()
sp_step4 ==
  /\ pc = "sp_step4"
  /\ page_text' \in SpTexts
  /\ Goto("sp_mpan2")
  /\ UNCHANGED <<spOuter, config, attempt, addrVars, sessionVars, retryVars,
                 ghostVars>>

\* "CHECK AGAIN: MPAN might appear after energy selection"
sp_mpan2 ==
  /\ pc = "sp_mpan2"
  /\ sp_loop_head("sp_mpan2", has_mpan_prompt(page_text), FALSE, "sp_mpan2_end")
sp_mpan2_pick ==
  /\ pc = "sp_mpan2_pick"
  /\ sp_loop_pick("sp_mpan2", "sp_mpan2_end")

\* if has_mpan_prompt(page_text): raise
sp_mpan2_end ==
  /\ pc = "sp_mpan2_end"
  /\ IF has_mpan_prompt(page_text)
       THEN Raise("All addresses require MPAN", "sp_finally")
       ELSE Goto("sp_step5")
  /\ UNCHANGED <<outerVars, config, attempt, addrVars, sessionVars, retryVars,
                 ghostVars>>

\* STEP 5: Continue; page_text = page.inner_text('body').lower()
sp_step5 ==
  /\ pc = "sp_step5"
  /\ page_text' \in SpTexts
  /\ Goto("sp_business")
  /\ UNCHANGED <<spOuter, config, attempt, addrVars, sessionVars, retryVars,
                 ghostVars>>

\* "CHECK: Business address popup - go back and try different address"
sp_business ==
  /\ pc = "sp_business"
  /\ sp_loop_head("sp_business", has_business_notice(page_text), TRUE,
                  "sp_business_end")

\* the business loop's re-selection: page_text is read after the select;
\* 'if has_mpan_prompt(page_text): continue' goes back to the while test with
\* that text; otherwise energy type and Continue are redone and it is read again
sp_business_pick ==
  /\ pc = "sp_business_pick"
  /\ LET i == sp_first_valid(options, start_index + retries,
                             start_index + SP_Rescan, tried) IN
     \E ok \in BOOLEAN, text \in SpTexts, text2 \in SpTexts :
       IF i = -1 THEN
         /\ pc' = "sp_business_end"
         /\ UNCHANGED <<tried, selected, page_text>>
       ELSE
         /\ tried' = tried \cup {i}
         /\ IF ok THEN /\ selected' = Append(selected, i)
                       /\ page_text' = IF has_mpan_prompt(text) THEN text ELSE text2
                       /\ pc' = "sp_business"
                  ELSE /\ pc' = "sp_business_pick"
                       /\ UNCHANGED <<selected, page_text>>
  /\ UNCHANGED <<spOuter, config, attempt, result, candidates, cur, retries,
                 addrBlock, sessionVars, baseWaits, lastWait, outcomes, ghostVars>>
  /\ NotePick

\* if 'business address' in page_text or 'looks like a business' in page_text: raise
sp_business_end ==
  /\ pc = "sp_business_end"
  /\ IF has_business_notice(page_text)
       THEN Raise("All addresses flagged as business", "sp_finally")
       ELSE Goto("sp_step6")
  /\ UNCHANGED <<outerVars, config, attempt, addrVars, sessionVars, retryVars,
                 ghostVars>>

\* STEP 6-9: payment method, Continue, first tariff, details page;
\* rates = extract_tariff_rates(page_text); if rates: append, else error
sp_step6 ==
  /\ pc = "sp_step6"
  /\ \E rates \in Quotes :
       /\ appended' = ~EmptyDict(rates)
       /\ result' = IF ~EmptyDict(rates)
                      THEN [result EXCEPT !.tariffs = Append(@, rates)]
                      ELSE [result EXCEPT !.error = "No rates extracted"]
  /\ pc' = "sp_finally"
  /\ UNCHANGED <<outerVars, config, attempt, addrVars, sessionVars, retryVars,
                 seen, missed, blocked>>

\* finally: if context: context.close(); return result, tried_addresses
sp_finally ==
  /\ pc = "sp_finally"
  /\ CloseContext
  /\ pc' = "attempt_done"
  /\ candidates' = <<>>
  /\ cur' = 0
  /\ retries' = 0
  /\ selected' = <<>>
  /\ addrBlock' = ""
  /\ seen' = {}
  /\ missed' = {}
  /\ blocked' = ""
  /\ appended' = FALSE
  /\ page_text' = {}
  /\ UNCHANGED <<spOuter, config, attempt, result, tried, retryVars>>

sp_Next ==
  \/ sp_context \/ sp_step1 \/ sp_step3 \/ sp_mpan \/ sp_mpan_pick \/ sp_info
  \/ sp_info_pick \/ sp_blocked \/ sp_step4 \/ sp_mpan2 \/ sp_mpan2_pick
  \/ sp_mpan2_end \/ sp_step5 \/ sp_business \/ sp_business_pick
  \/ sp_business_end \/ sp_step6 \/ sp_finally

SpNext == retry_Next \/ sp_Next

SpSpec == SpInit /\ [][SpNext]_vars

\* every journey with an address dropdown: one scrape_with_retry call of
\* British Gas, E.ON (v5, v6), OVO or Scottish Power
JourneyInit == Init \/ SpInit
JourneyNext == Next \/ SpNext
JourneySpec == JourneyInit /\ [][JourneyNext]_vars

\* every driver call returns or times out: a step that can be taken is taken
FairJourneySpec == JourneySpec /\ WF_vars(JourneyNext)

\* -------------------------------------------------- blocker classification
\* One behaviour = one page text handed to a supplier's classification and
\* the journey's reaction to the answer.  body lists the phrases of the text
\* in the order they occur in it.
DetectSuppliers == {"bg", "ovo", "so"}
PopupSuppliers == {"eon5", "eon6"}
BlockSuppliers == DetectSuppliers \cup PopupSuppliers

\* the texts of up to n distinct phrases of S, in every order
SeqsOver(S, n) ==
  UNION {{t \in [1..k -> S] : \A i, j \in 1..k : i # j => t[i] # t[j]} : k \in 0..n}

PhrasesOf(text) == {text[i] : i \in DOMAIN text}

\* the lists of up to n members of S, repeated members included
ListsOver(S, n) == UNION {[1..k -> S] : k \in 0..n}

BlockInit ==
  /\ supplier \in BlockSuppliers
  /\ body \in SeqsOver(IF supplier \in DetectSuppliers THEN BlockPhrases
                                                       ELSE AddrIssues, MaxPhrases)
  /\ returned = NotCalled
  /\ pc = "block_call"
  /\ max_attempts = 1
  /\ options = <<>>
  /\ attempt = 1
  /\ result = NewResult(1)
  /\ tried = {}
  /\ candidates = <<>>
  /\ cur = 0
  /\ retries = 0
  /\ selected = <<>>
  /\ context = 0
  /\ sessions = 0
  /\ closed = {}
  /\ sessionOf = <<>>
  /\ baseWaits = <<>>
  /\ lastWait = 0
  /\ seen = {}
  /\ missed = {}
  /\ blocked = ""
  /\ addrBlock = ""
  /\ appended = FALSE
  /\ outcomes = <<>>
  /\ picked = <<>>
  /\ start_index = 0
  /\ page_text = {}
  /\ BatchIdle
  /\ AggIdle
  /\ RunIdle

blockFixed == <<config, attempt, tried, candidates, cur, retries, selected,
                sessionVars, retryVars, seen, appended, batchVars, aggVars,
                start_index, page_text, body, runVars>>

\* detect_blocking(page): a chain of 'phrase in page_text' tests on the
\* lower-cased text; so_energy's chain is OVO's
detect_blocking_first_phrase(s, text) ==
  IF text = <<>> THEN ""
  ELSE IF s = "bg" THEN bg_detect_blocking({text[1]})
  ELSE ovo_detect_blocking({text[1]})

detect_blocking(s, text) ==
  IF s = "bg" THEN bg_detect_blocking(PhrasesOf(text))
  ELSE ovo_detect_blocking(PhrasesOf(text))

\* the popup the E.ON address loop reacts to: v5 tests chrome app, already
\* supply, business meter, prepayment in this order; v6 tests the entries of
\* check_popup_issues in the order already_supply, business_meter, prepayment
\* ('missing_out' closes the popup and goes on with the same address)
eon_popup_kind_first_phrase(s, text) ==
  IF text = <<>> THEN ""
  ELSE IF text[1] = "chrome_app" THEN (IF s = "eon5" THEN "chrome_app" ELSE "")
  ELSE IF text[1] = "already_supply" THEN "already_customer"
  ELSE IF text[1] = "business_meter" THEN "business_meter"
  ELSE IF text[1] = "prepayment" THEN "prepayment_meter"
  ELSE ""

eon_popup_kind(s, text) ==
  IF s = "eon5" /\ "chrome_app" \in PhrasesOf(text) THEN "chrome_app"
  ELSE IF "already_supply" \in PhrasesOf(text) THEN "already_customer"
  ELSE IF "business_meter" \in PhrasesOf(text) THEN "business_meter"
  ELSE IF "prepayment" \in PhrasesOf(text) THEN "prepayment_meter"
  ELSE ""

\* blocked, block_type = detect_blocking(page); a page.inner_text that raises
\* is caught inside: 'except: return False, ""'
block_detect ==
  /\ pc = "block_call"
  /\ supplier \in DetectSuppliers
  /\ \E readable \in BOOLEAN :
       /\ returned' = IF readable THEN detect_blocking(supplier, body) ELSE ""
       /\ missed' = IF readable THEN missed ELSE {"page_text"}
  /\ pc' = "block_check"
  /\ UNCHANGED <<blockFixed, result, blocked, addrBlock>>

\* if blocked: raise Exception(f"Blocked on page load: {block_type}");
\* otherwise the journey goes on with its next step
block_check ==
  /\ pc = "block_check"
  /\ IF returned # ""
       THEN /\ Raise("Blocked on page load", "block_raised")
            /\ NoteBlocked(returned)
       ELSE /\ Goto("block_next_step")
            /\ UNCHANGED blocked
  /\ UNCHANGED <<blockFixed, missed, addrBlock, returned>>

\* E.ON: the checks after an address is selected; a popup sends the loop to
\* the next address
block_popups ==
  /\ pc = "block_call"
  /\ supplier \in PopupSuppliers
  /\ LET kind == eon_popup_kind(supplier, body) IN
       /\ returned' = kind
       /\ addrBlock' = kind
       /\ pc' = IF kind # "" THEN "block_next_address" ELSE "block_next_step"
  /\ UNCHANGED <<blockFixed, result, missed, blocked>>

BlockNext == block_detect \/ block_check \/ block_popups

BlockSpec == BlockInit /\ [][BlockNext]_vars

\* ------------------------------------------------------- rate extraction
\* One behaviour = one page text handed to a supplier's extraction function.
\* The text is a sequence of the pieces the regular expressions look for:
\*   elec     : an "Electricity ..." header ("Electricity tariff costs")
\*   gas      : a "Gas ..." header ("Gas tariff costs")
\*   unit     : "Unit rate <v> p per kWh"
\*   standing : "Standing charge <v> p per day"
\*   exit     : "Exit fee: <sign><v> per fuel"
\* Rates are in hundredths of a penny (27.50 p = 2750).  sign is "pound" for
\* the pound sign, "mojibake" for the two characters the UTF-8 bytes of the
\* pound sign give when read as Latin-1, "" for none.
Tok(k, v) == [k |-> k, v |-> v, sign |-> ""]
ExitTok(v, sign) == [k |-> "exit", v |-> v, sign |-> sign]

RateTokens ==
  {Tok("elec", 0), Tok("gas", 0), Tok("unit", 2750), Tok("unit", 620),
   Tok("unit", 9500), Tok("standing", 4510), Tok("standing", 3000)}

\* the page of the specification's example
ExamplePage ==
  <<Tok("elec", 0), Tok("unit", 2750), Tok("standing", 4510),
    Tok("gas", 0), Tok("unit", 620), Tok("standing", 3000), ExitTok(50, "pound")>>

ExtractTexts ==
  UNION {[1..n -> RateTokens] : n \in 0..MaxTokens}
    \cup {ExamplePage,
          [ExamplePage EXCEPT ![7] = ExitTok(50, "mojibake")],
          [ExamplePage EXCEPT ![7] = ExitTok(50, "")]}

ExtractSuppliers == {"bg", "ovo", "sp", "fuse"}

ExtractInit ==
  /\ supplier \in ExtractSuppliers
  /\ body \in ExtractTexts
  /\ returned = NotCalled
  /\ pc = "extract_call"
  /\ max_attempts = 1
  /\ options = <<>>
  /\ attempt = 1
  /\ result = NewResult(1)
  /\ tried = {}
  /\ candidates = <<>>
  /\ cur = 0
  /\ retries = 0
  /\ selected = <<>>
  /\ context = 0
  /\ sessions = 0
  /\ closed = {}
  /\ sessionOf = <<>>
  /\ baseWaits = <<>>
  /\ lastWait = 0
  /\ seen = {}
  /\ missed = {}
  /\ blocked = ""
  /\ addrBlock = ""
  /\ appended = FALSE
  /\ outcomes = <<>>
  /\ picked = <<>>
  /\ start_index = 0
  /\ page_text = {}
  /\ BatchIdle
  /\ AggIdle
  /\ RunIdle

extractFixed == <<config, attempt, result, addrVars, sessionVars, retryVars,
                  ghostVars, batchVars, aggVars, start_index, page_text, body,
                  runVars>>

\* position of the first piece of kind k in text[lo..hi], 0 without one
FirstOf(text, kinds, lo, hi) ==
  LET at == {i \in lo..hi : text[i].k \in kinds}
  IN IF at = {} THEN 0 ELSE CHOOSE i \in at : \A j \in at : i <= j

\* position of the n-th piece of kind k in the text, 0 without one
NthOf(text, k, n) ==
  LET at == {i \in DOMAIN text : text[i].k = k}
      upto == {i \in at : Cardinality({j \in at : j <= i}) = n}
  IN IF upto = {} THEN 0 ELSE CHOOSE i \in upto : TRUE

\* group(1) of re.search(header + '(.*?)' + (stop | $)): the pieces after the
\* first header up to the first stop after it; <<0, 0>> without the header
Section(text, header, stops) ==
  LET h == FirstOf(text, {header}, 1, Len(text))
      e == IF h = 0 THEN 0 ELSE FirstOf(text, stops, h + 1, Len(text))
  IN IF h = 0 THEN <<0, 0>>
     ELSE <<h + 1, IF e = 0 THEN Len(text) ELSE e - 1>>

ValueAt(text, i) == IF i = 0 THEN 0 ELSE text[i].v

NoFee == [sign |-> "", amount |-> 0, per_fuel |-> FALSE]

\* a rates dict; 0 and NoFee stand for a key that is not set
NoRates == [elec_unit_rate_p |-> 0, elec_standing_p |-> 0,
            gas_unit_rate_p |-> 0, gas_standing_p |-> 0, exit_fee |-> NoFee]

\* re.search('<Fuel> tariff costs.*?Unit rate (n) p per kWh.*?Standing charge
\* (n) p per day', re.S): the first header, the first unit rate after it and
\* the first standing charge after that one, wherever they stand
bg_fuel_match(text, header) ==
  LET h == FirstOf(text, {header}, 1, Len(text))
      u == IF h = 0 THEN 0 ELSE FirstOf(text, {"unit"}, h + 1, Len(text))
      c == IF u = 0 THEN 0 ELSE FirstOf(text, {"standing"}, u + 1, Len(text))
  IN IF c = 0 THEN <<0, 0>> ELSE <<u, c>>

\* exit_fee_patterns: the first wants the mojibake sign before the amount,
\* the second wants the amount right after "Exit fee:"; the value is
\* formatted with the mojibake sign
bg_exit_fee(text) ==
  LET a == {i \in DOMAIN text : text[i].k = "exit" /\ text[i].sign = "mojibake"}
      b == {i \in DOMAIN text : text[i].k = "exit" /\ text[i].sign = ""}
      at == IF a # {} THEN a ELSE b
  IN IF at = {} THEN NoFee
     ELSE LET i == CHOOSE x \in at : \A y \in at : x <= y
          IN [sign |-> "mojibake", amount |-> text[i].v, per_fuel |-> TRUE]

\* bg_scraper_v10.extract_tariff_rates
bg_extract_rates(text) ==
  LET g == bg_fuel_match(text, "gas")
      e == bg_fuel_match(text, "elec")
  IN [elec_unit_rate_p |-> ValueAt(text, e[1]),
      elec_standing_p |-> ValueAt(text, e[2]),
      gas_unit_rate_p |-> ValueAt(text, g[1]),
      gas_standing_p |-> ValueAt(text, g[2]),
      exit_fee |-> bg_exit_fee(text)]

\* the first piece of a kind in a section; the value is stored when it lies
\* strictly between lo and hi
ranged_first(text, sec, kind, lo, hi) ==
  LET i == IF sec[1] = 0 THEN 0 ELSE FirstOf(text, {kind}, sec[1], sec[2])
      v == ValueAt(text, i)
  IN IF lo < v /\ v < hi THEN v ELSE 0

\* elec_unit_patterns, tried in order until a value in the range is found:
\* the first three find the first unit rate of the section, the last one
\* ('(\d+\.\d{2,})\s*p') the first figure with two decimals before a "p",
\* which may be a standing charge
sp_unit_rate(text, sec, lo, hi) ==
  LET a == IF sec[1] = 0 THEN 0 ELSE FirstOf(text, {"unit"}, sec[1], sec[2])
      b == IF sec[1] = 0 THEN 0
           ELSE FirstOf(text, {"unit", "standing"}, sec[1], sec[2])
      va == ValueAt(text, a)
      vb == ValueAt(text, b)
  IN IF lo < va /\ va < hi THEN va
     ELSE IF lo < vb /\ vb < hi THEN vb
     ELSE 0

\* scottish_power_scraper_v2.extract_tariff_rates, the four rate keys:
\* 'if 10 < val < 50' etc.
sp_extract_rates(text) ==
  LET es == Section(text, "elec", {"gas"})
      gs == Section(text, "gas", {"elec"})
  IN [elec_unit_rate_p |-> sp_unit_rate(text, es, 1000, 5000),
      elec_standing_p |-> ranged_first(text, es, "standing", 2000, 8000),
      gas_unit_rate_p |-> sp_unit_rate(text, gs, 300, 2000),
      gas_standing_p |-> ranged_first(text, gs, "standing", 2000, 5000)]

\* scottish_power_scraper_v2.validate_rates: the warnings it prints
validate_rates(rates) ==
  {f \in {"elec_unit_rate_p", "gas_unit_rate_p", "elec_standing_p", "gas_standing_p"} :
     LET v == rates[f] IN
     /\ v # 0
     /\ CASE f = "elec_unit_rate_p" -> v > 5000 \/ v < 1000
          [] f = "gas_unit_rate_p"  -> v > 2000 \/ v < 300
          [] f = "elec_standing_p"  -> v > 7000 \/ v < 2000
          [] f = "gas_standing_p"   -> v > 5000 \/ v < 2000}

\* fuse_energy_scraper_v2_fixed.extract_rates, the four rate keys
fuse_extract_rates(text) ==
  LET es == Section(text, "elec", {"gas"})
      gs == Section(text, "gas", {"elec"})
  IN [elec_unit_rate_p |-> ranged_first(text, es, "unit", 1000, 6000),
      elec_standing_p |-> ranged_first(text, es, "standing", 2000, 8000),
      gas_unit_rate_p |-> ranged_first(text, gs, "unit", 300, 2000),
      gas_standing_p |-> ranged_first(text, gs, "standing", 2000, 6000)]

\* ovo_scraper_v1.extract_rates_from_modal, the four rate keys: the electricity section stops at
\* "Gas", the gas section only at "Estimated yearly" or the end of the text;
\* without an electricity unit rate (standing charge) the first and second
\* rates (charges) of the whole text are taken
ovo_extract_rates(text) ==
  LET es == Section(text, "elec", {"gas"})
      gs == Section(text, "gas", {})
      first(sec, kind) ==
        ValueAt(text, IF sec[1] = 0 THEN 0 ELSE FirstOf(text, {kind}, sec[1], sec[2]))
      eu == first(es, "unit")
      ec == first(es, "standing")
      gu == first(gs, "unit")
      gc == first(gs, "standing")
      u1 == NthOf(text, "unit", 1)
      u2 == NthOf(text, "unit", 2)
      c1 == NthOf(text, "standing", 1)
      c2 == NthOf(text, "standing", 2)
  IN [elec_unit_rate_p |-> IF eu # 0 THEN eu ELSE ValueAt(text, u1),
      gas_unit_rate_p  |-> IF eu = 0 /\ u2 # 0 THEN ValueAt(text, u2) ELSE gu,
      elec_standing_p  |-> IF ec # 0 THEN ec ELSE ValueAt(text, c1),
      gas_standing_p   |-> IF ec = 0 /\ c2 # 0 THEN ValueAt(text, c2) ELSE gc]

\* rates = extract_tariff_rates(page_text)
bg_extract ==
  /\ pc = "extract_call"
  /\ supplier = "bg"
  /\ returned' = [rates |-> bg_extract_rates(body), warnings |-> {}]
  /\ pc' = "extract_done"
  /\ UNCHANGED extractFixed

\* rates = extract_tariff_rates(page_text); if rates: validate_rates(rates)
sp_extract ==
  /\ pc = "extract_call"
  /\ supplier = "sp"
  /\ LET rates == sp_extract_rates(body) IN
       returned' = [rates |-> rates, warnings |-> validate_rates(rates)]
  /\ pc' = "extract_done"
  /\ UNCHANGED extractFixed

\* rates = extract_rates(page)
fuse_extract ==
  /\ pc = "extract_call"
  /\ supplier = "fuse"
  /\ returned' = [rates |-> fuse_extract_rates(body), warnings |-> {}]
  /\ pc' = "extract_done"
  /\ UNCHANGED extractFixed

\* rates = extract_rates_from_modal(page)
ovo_extract ==
  /\ pc = "extract_call"
  /\ supplier = "ovo"
  /\ returned' = [rates |-> ovo_extract_rates(body), warnings |-> {}]
  /\ pc' = "extract_done"
  /\ UNCHANGED extractFixed

ExtractNext == bg_extract \/ sp_extract \/ fuse_extract \/ ovo_extract

ExtractSpec == ExtractInit /\ [][ExtractNext]_vars

\* ------------------------------------------------- master runner, parallel
\* run_all_scrapers.py without --sequential: one thread per requested name,
\* each running the supplier's script as a subprocess and storing its status
\* in results_dict; the main thread joins them all before combining.
\* A path is written with its variable parts left as <region>, <postcode>
\* and <ts>: two patterns that differ can still not name the same file,
\* because no region name starts with another script's prefix.
\* what --only can name: the configured scrapers and a name that is not one
OnlyNames == DOMAIN SCRAPERS \cup {"so"}

\* the files a script writes, in the order it first writes them
script_writes_one_partial_file(script) ==
  <<"screenshots/<region>.png", "tariffs_partial.json",
    "tariffs_<ts>.json", "tariffs_<ts>.csv">>

script_writes(script) ==
  CASE script = "eon_next_scraper_v5.py" ->
         <<"debug_page_text.txt", "eon_tariffs_partial.json",
           "eon_tariffs_<ts>.json", "eon_tariffs_<ts>.csv">>
    [] script = "bg_scraper_v10.py" ->
         <<"screenshots/<region>.png", "bg_tariffs_partial.json",
           "bg_tariffs_<ts>.json", "bg_tariffs_<ts>.csv">>
    [] script = "ovo_scraper_v1.py" ->
         <<"debug_ovo_modal.txt", "screenshots/ovo_<region>.png",
           "ovo_tariffs_partial.json", "ovo_tariffs_<ts>.json",
           "ovo_tariffs_<ts>.csv">>
    [] script = "octopus_api_v1.py" ->
         <<"octopus_tariffs_<ts>.json", "octopus_tariffs_<ts>.csv">>
    [] script = "scottish_power_scraper_v2.py" ->
         <<"screenshots/sp_<region>.png", "debug_sp_<postcode>.txt",
           "sp_tariffs_partial.json", "sp_tariffs_<ts>.json",
           "sp_tariffs_<ts>.csv">>
    [] script = "edf_scraper_v5_fixed.py" ->
         <<"screenshots/edf_<region>.png", "debug_edf_<region>.txt",
           "edf_tariffs_partial.json", "edf_tariffs_<ts>.json",
           "edf_tariffs_<ts>.csv">>
    [] script = "fuse_energy_scraper_v2_fixed.py" ->
         <<"debug_fuse_page.txt", "screenshots/fuse_<region>.png",
           "debug_gas_page.txt", "fuse_tariffs_partial.json",
           "fuse_tariffs_<ts>.json", "fuse_tariffs_<ts>.csv">>

\* the paths thread t has written so far
written(t) ==
  LET w == script_writes(SCRAPERS[t.name].script)
  IN {w[k] : k \in 1..t.at}

\* indices of the threads that have not stored their status yet
Running == {i \in DOMAIN threads : ~threads[i].done}

\* scrapers_to_run = args.only if args.only else list(SCRAPERS.keys())
RunInit ==
  /\ supplier = "all"
  /\ pc = "run_start"
  /\ scrapers_to_run \in ListsOver(OnlyNames, MaxUnits)
  /\ threads = <<>>
  /\ results_dict = <<>>
  /\ TaskIdle
  /\ BatchIdle
  /\ AggIdle

runFixed == <<config, attempt, result, tried, candidates, retries, selected,
              sessionVars, retryVars, ghostVars, addrBlock, batchVars, aggVars,
              start_index, page_text, unitVars, scrapers_to_run>>

\* for name in scrapers_to_run: an unknown name is skipped, a known one gets
\* a started thread
run_start ==
  /\ pc = "run_start"
  /\ cur < Len(scrapers_to_run)
  /\ LET name == scrapers_to_run[cur + 1]
     IN IF name \notin DOMAIN SCRAPERS
          THEN UNCHANGED threads
          ELSE threads' = Append(threads,
                 [name |-> name, at |-> 0, done |-> FALSE, key |-> "",
                  started_with |-> Running])
  /\ cur' = cur + 1
  /\ UNCHANGED <<pc, results_dict, runFixed>>

\* the loop is over: the main thread goes on to join
run_started ==
  /\ pc = "run_start"
  /\ cur = Len(scrapers_to_run)
  /\ pc' = "run_join"
  /\ cur' = 0
  /\ UNCHANGED <<threads, results_dict, runFixed>>

\* the subprocess of a running thread writes the next of its files
run_unit_write ==
  /\ pc \in {"run_start", "run_join"}
  /\ \E i \in Running :
       /\ threads[i].at < Len(script_writes(SCRAPERS[threads[i].name].script))
       /\ threads' = [threads EXCEPT ![i].at = @ + 1]
  /\ UNCHANGED <<pc, cur, results_dict, runFixed>>

\* run_scraper_thread: the subprocess is over, at whatever point it got to,
\* and returned 0 if it got to its end; results_dict[name] = success
run_unit_finish ==
  /\ pc \in {"run_start", "run_join"}
  /\ \E i \in Running :
       LET name == threads[i].name
           success == threads[i].at = Len(script_writes(SCRAPERS[name].script))
       IN /\ results_dict' =
               [k \in DOMAIN results_dict \cup {name} |->
                  IF k = name THEN success ELSE results_dict[k]]
          /\ threads' = [threads EXCEPT ![i].done = TRUE, ![i].key = name]
  /\ UNCHANGED <<pc, cur, runFixed>>

\* the status of the next thread is printed without waiting for the thread
run_join_without_waiting ==
  /\ pc = "run_join"
  /\ cur < Len(threads)
  /\ cur' = cur + 1
  /\ UNCHANGED <<pc, threads, results_dict, runFixed>>

\* for name, t in threads: t.join(); the status results_dict.get(name) is
\* printed
run_join ==
  /\ pc = "run_join"
  /\ cur < Len(threads)
  /\ threads[cur + 1].done
  /\ cur' = cur + 1
  /\ UNCHANGED <<pc, threads, results_dict, runFixed>>

\* every thread is joined: combine_results comes next
run_joined ==
  /\ pc = "run_join"
  /\ cur = Len(threads)
  /\ pc' = "run_combine"
  /\ UNCHANGED <<cur, threads, results_dict, runFixed>>

RunNext ==
  \/ run_start
  \/ run_started
  \/ run_unit_write
  \/ run_unit_finish
  \/ run_join
  \/ run_joined

RunSpec == RunInit /\ [][RunNext]_vars

\* ------------------------------------------- load_scraper_results, row by row
\* One behaviour = one output file handed to the normalisation of
\* load_scraper_results.  body is the list the file holds; a value is written
\* as a string, "absent" for a key the dict does not have and "null" for None.
\* The rate fields are all copied the same way; elec_unit_rate_p stands for them.
Tariffs ==
  {[tariff_name |-> "Fixed", elec_unit_rate_p |-> "27.50",
    exit_fee_gbp |-> "50", exit_fee |-> "absent"],
   [tariff_name |-> "absent", elec_unit_rate_p |-> "absent",
    exit_fee_gbp |-> "0", exit_fee |-> "75"],
   [tariff_name |-> "Variable", elec_unit_rate_p |-> "null",
    exit_fee_gbp |-> "absent", exit_fee |-> "absent"]}

\* the results a scraper saves: error is set to a string by its handlers and
\* is otherwise not a key of the dict
SourceResults ==
  [supplier : {"absent", "fuse_energy"},
   tariffs  : ListsOver(Tariffs, MaxTariffs),
   error    : {"absent", "Timeout"}]

LoadInit ==
  /\ supplier = "fuse"
  /\ body \in ListsOver(SourceResults, MaxResults)
  /\ returned = NotCalled
  /\ pc = "load_call"
  /\ max_attempts = 1
  /\ options = <<>>
  /\ attempt = 0
  /\ result = NewResult(0)
  /\ addrBlock = ""
  /\ tried = {} /\ candidates = <<>> /\ cur = 0 /\ retries = 0 /\ selected = <<>>
  /\ context = 0 /\ sessions = 0 /\ closed = {} /\ sessionOf = <<>>
  /\ baseWaits = <<>> /\ lastWait = 0 /\ outcomes = <<>> /\ picked = <<>>
  /\ seen = {} /\ missed = {} /\ blocked = "" /\ appended = FALSE
  /\ start_index = 0
  /\ page_text = {}
  /\ BatchIdle
  /\ AggIdle
  /\ RunIdle

\* d.get(key): None for a key the dict does not have
Get(v) == IF v = "absent" THEN "null" ELSE v

\* d.get(key, default)
GetOr(v, default) == IF v = "absent" THEN default ELSE v

\* a or b
Or(a, b) == IF a \in {"null", "", "0"} THEN b ELSE a

\* the row appended for tariff t of result r
tariff_row(r, t, supplier_name) ==
  [supplier         |-> GetOr(r.supplier, supplier_name),
   tariff_name      |-> GetOr(t.tariff_name, ""),
   elec_unit_rate_p |-> Get(t.elec_unit_rate_p),
   exit_fee_gbp     |-> Or(Get(t.exit_fee_gbp), Get(t.exit_fee)),
   error            |-> "null"]

\* the row appended for a result without tariffs
failed_row_without_default(r, supplier_name) ==
  [supplier         |-> GetOr(r.supplier, supplier_name),
   tariff_name      |-> "null",
   elec_unit_rate_p |-> "null",
   exit_fee_gbp     |-> "null",
   error            |-> Get(r.error)]

failed_row(r, supplier_name) ==
  [supplier         |-> GetOr(r.supplier, supplier_name),
   tariff_name      |-> "null",
   elec_unit_rate_p |-> "null",
   exit_fee_gbp     |-> "null",
   error            |-> GetOr(r.error, "Unknown")]

\* the rows of one result: if r.get("tariffs"): one per tariff, else one
rows_of(r, supplier_name) ==
  IF r.tariffs # <<>>
    THEN [j \in 1..Len(r.tariffs) |-> tariff_row(r, r.tariffs[j], supplier_name)]
    ELSE <<failed_row(r, supplier_name)>>

\* normalized = []; for r in data: ...; return normalized
RECURSIVE normalized(_, _)
normalized(data, supplier_name) ==
  IF data = <<>> THEN <<>>
  ELSE rows_of(Head(data), supplier_name) \o normalized(Tail(data), supplier_name)

loadFixed == <<config, attempt, result, addrVars, sessionVars, retryVars,
               ghostVars, batchVars, aggVars, start_index, page_text, body,
               runVars>>

\* load_scraper_results(config) on a file that is found and read
load_call ==
  /\ pc = "load_call"
  /\ returned' = normalized(body, SCRAPERS[supplier].supplier_name)
  /\ pc' = "load_done"
  /\ UNCHANGED loadFixed

\* the caller extends all_results with the rows
load_extend ==
  /\ pc = "load_done"
  /\ pc' = "load_extended"
  /\ UNCHANGED <<loadFixed, returned>>

LoadNext == load_call \/ load_extend

LoadSpec == LoadInit /\ [][LoadNext]_vars

\* ================================================================ claims

\* C1: scrape_with_retry runs attempts 1, 2, ... in order, never more than
\* max_attempts; every attempt before the last one run had empty tariffs; it
\* returns the result of the last attempt run, whose attempt field is the
\* number of attempts run, and that attempt either succeeded or was attempt
\* number max_attempts.
C1_RetryOrder ==
  /\ attempt <= max_attempts
  /\ Len(outcomes) <= attempt
  /\ \A k \in 1..Len(outcomes) :
       /\ outcomes[k].attempt = k
       /\ (k < attempt => ~outcomes[k].ok)
  /\ pc = "returned" =>
       /\ attempt >= 1
       /\ Len(outcomes) = attempt
       /\ result.attempt = attempt
       /\ outcomes[attempt].ok <=> (result.tariffs # <<>>)
       /\ ~outcomes[attempt].ok => attempt = max_attempts

\* C1 witness: the second of three allowed attempts succeeded and was returned
C1_Witness ==
  /\ pc = "returned"
  /\ max_attempts = 3
  /\ attempt = 2
  /\ result.tariffs # <<>>
  /\ Len(outcomes) = 2

\* C2 (as stated): once detect_blocking has reported a session-scoped blocker
\* in an attempt, the attempt is at its end with an error and no tariffs.
C2_SessionBlockerEndsAttempt ==
  blocked \in SessionBlockers =>
    /\ pc \in {"bg_finally", "eon5_end", "eon6_finally", "ovo_finally"}
    /\ result.error # NoError
    /\ result.tariffs = <<>>

\* C3 (as stated): an attempt that ends on an address failure after an
\* address-scoped blocker has no untried candidate left in the dropdown.
C3_ExhaustedOnlyWhenNoneLeft ==
  LET untried ==
        IF supplier = "ovo"
          THEN {i \in OVO_DefaultStart..(Len(options) - 1) : i \notin tried}
          ELSE {i \in 1..(Len(options) - 1) :
                  i \notin tried /\ is_residential_address(Opt(options, i))}
  IN (/\ pc \in {"eon5_end", "eon6_finally", "ovo_finally"}
      /\ addrBlock # ""
      /\ result.error \in {"Already customer - need different address",
                           "All addresses have meter issues",
                           "No valid address found after multiple tries",
                           "No valid address found"})
     => untried = {}

C5_SelectionsBounded ==
  Len(selected) <= (CASE supplier = "bg"   -> BG_MaxTried
                      [] supplier = "eon5" -> EON5_MaxTries
                      [] supplier = "eon6" -> EON6_max_tries
                      [] supplier = "ovo"  -> 1 + OVO_max_address_retries)

\* C6 (as stated): no browser session is used by two attempts, and the session
\* of an attempt is closed when the attempt has ended.
C6_FreshSessionPerAttempt ==
  /\ \A i, j \in 1..Len(sessionOf) :
       (i # j /\ sessionOf[i] # 0) => sessionOf[i] # sessionOf[j]
  /\ pc \in {"attempt_done", "sleeping", "returned"} =>
       \A i \in 1..Len(sessionOf) : sessionOf[i] # 0 => sessionOf[i] \in closed

\* C7: the sleep before attempt k+1 is 30 * 2^(k-1) plus a jitter in
\* [0, Jitter(supplier)]; a sleep follows only a failed attempt that is not the
\* last one; after three failed attempts of three the base waits are 30, 60.
C7_Backoff ==
  /\ \A k \in 1..Len(baseWaits) : baseWaits[k] = 30 * 2^(k - 1)
  /\ Len(baseWaits) <= attempt
  /\ attempt >= 1 => Len(baseWaits) < max_attempts
  /\ pc = "sleeping" =>
       /\ attempt < max_attempts
       /\ result.tariffs = <<>>
       /\ Len(baseWaits) = attempt
       /\ lastWait - 30 * 2^(attempt - 1) \in 0..Jitter(supplier)
  /\ pc # "sleeping" => lastWait = 0
  /\ pc = "returned" => Len(baseWaits) = attempt - 1
  /\ (pc = "returned" /\ max_attempts = 3 /\ result.tariffs = <<>>) =>
       baseWaits = <<30, 60>>

\* C7 witness: the sleep before attempt 3 of an E.ON v5 task, at full jitter
C7_Witness ==
  /\ pc = "sleeping"
  /\ supplier = "eon5"
  /\ attempt = 2
  /\ baseWaits = <<30, 60>>
  /\ lastWait = 90

\* C8 (as stated): every quote in a result's tariffs carries a unit rate.
C8_QuotesCarryUnitRate ==
  \A i \in 1..Len(result.tariffs) : HasUnitRate(result.tariffs[i])

\* C9 (as stated): a returned result with non-empty tariffs has no error.
C9_TariffsExcludeError ==
  (pc \in {"attempt_done", "returned"} /\ result.tariffs # <<>>) =>
    result.error = NoError

\* C10 (as stated): a result returned by an attempt has tariffs or an error.
C10_TariffsOrError ==
  pc \in {"attempt_done", "sleeping", "returned"} =>
    (result.tariffs # <<>> \/ result.error # NoError)

\* C11 (as stated): the batch runner ends by returning exactly one result per
\* configured region, in configured order; it never ends by an exception.
C11_OneResultPerRegion ==
  pc \in {"batch_returned", "batch_raised"} =>
    /\ pc = "batch_returned"
    /\ Len(results) = postcodes
    /\ \A i \in 1..Len(results) : results[i].region = i

\* C12 (as stated): whatever the consecutive-failure counter, a runner that
\* returns has attempted every configured region.
C12_CounterOnlyWarns ==
  (pc = "batch_returned" /\ consecutive_failures > 0) => Len(results) = postcodes

\* C13 (as stated): between tasks and at the return the partial results file
\* holds exactly the results of the tasks completed so far.
C13_PartialFileComplete ==
  (pc \in {"batch_loop", "batch_returned"} /\ supplier \in BatchSuppliers) =>
    partial = results

\* C14 (as stated): the file the aggregator has loaded is one with the
\* greatest record count among the supplier's files.
C14_LargestFileLoaded ==
  pc \in {"agg_save", "agg_done"} =>
    \A g \in files : Len(g.data) <= Len(latest_file.data)

\* C15 (as stated): after the retry phase the combined results still hold a
\* record for every region of the supplier's full batch run.
C15_RetryKeepsBatch ==
  (pc \in {"agg_save", "agg_done"} /\ \E f \in files : f.run = "batch") =>
    \A i \in 1..postcodes : \E k \in 1..Len(combined) : combined[k].region = i

\* C16 (as stated): the statistics count as successful exactly the records
\* with a tariff name, a unit rate and no error.
C16_SuccessCount ==
  pc = "agg_done" =>
    supplier_stats.success =
      Cardinality({k \in 1..Len(combined) :
                     combined[k].name /\ combined[k].unit /\ ~combined[k].error})

\* C17 (as stated): a retry run is launched only for a supplier of whose
\* combined records at least half (the 50% threshold) were successful.
C17_RetryOnlyAboveThreshold ==
  (pc = "agg_retry" /\ retry_runs > 0) =>
    2 * Cardinality({k \in 1..Len(combined) :
                       combined[k].name /\ combined[k].unit /\ ~combined[k].error})
      >= Len(combined)

\* C18 (as stated): the generated candidates contain no option with a skip
\* word and no index of the tried set.
C18_NoSkipWordNoTried ==
  pc = "addr_done" =>
    \A k \in 1..Len(candidates) :
      /\ ~HasSkipWord(Opt(options, candidates[k]))
      /\ candidates[k] \notin tried

\* C18 (amended): get_valid_addresses returns no option with a skip word and
\* no tried index; British Gas's good_indices holds an option with a skip word
\* only when no option from the start index on is free of skip words, and then
\* it is the unfiltered range of the fallback.
C18_FilteredUnlessFallback ==
  pc = "addr_done" =>
    LET clean == {i \in start_index..(Len(options) - 1) : ~HasSkipWord(Opt(options, i))}
        skip  == {k \in 1..Len(candidates) : HasSkipWord(Opt(options, candidates[k]))}
    IN /\ supplier \in {"eon5", "ovo"} =>
            (skip = {} /\ \A k \in 1..Len(candidates) : candidates[k] \notin tried)
       /\ supplier = "bg" => (skip # {} => clean = {})
       /\ (supplier = "bg" /\ clean # {}) =>
            {candidates[k] : k \in 1..Len(candidates)} = clean

\* C18 witness: British Gas, a dropdown of flats only: the fallback hands out
\* options with a skip word
C18_Witness ==
  /\ pc = "addr_done"
  /\ supplier = "bg"
  /\ options = <<"named", "flat", "flat">>
  /\ start_index = 1
  /\ candidates = <<1, 2>>

\* C19 (as stated): when no option from the start index on passes the filter
\* and the list reaches the start index, the candidates are the unfiltered
\* options start .. start+N-1 (N = 10, clipped), hence not empty.
C19_FallbackWhenFilterEmpty ==
  (/\ pc = "addr_done"
   /\ start_index < Len(options)
   /\ \A i \in start_index..(Len(options) - 1) :
        IF supplier = "bg" THEN HasSkipWord(Opt(options, i))
        ELSE ~is_residential_address(Opt(options, i)))
  => /\ candidates # <<>>
     /\ Len(candidates) = Min(Len(options), start_index + 10) - start_index
     /\ \A k \in 1..Len(candidates) : candidates[k] = start_index + k - 1

\* C20: get_valid_addresses returns exactly the indices >= start_index that are
\* not tried and whose text starts with a digit and has no skip word, in
\* ascending order; <<"Flat 2, 10 Main St", "10 Main St", "12 Main St">> with
\* start 0 and nothing tried gives the second and third option.
C20_GetValidAddresses ==
  (pc = "addr_done" /\ supplier \in {"eon5", "ovo"}) =>
    /\ \A k \in 1..Len(candidates) :
         /\ candidates[k] \in start_index..(Len(options) - 1)
         /\ candidates[k] \notin tried
         /\ StartsWithDigit(Opt(options, candidates[k]))
         /\ ~HasSkipWord(Opt(options, candidates[k]))
    /\ \A i \in start_index..(Len(options) - 1) :
         (i \notin tried /\ Opt(options, i) = "house") =>
           \E k \in 1..Len(candidates) : candidates[k] = i
    /\ \A k \in 1..(Len(candidates) - 1) : candidates[k] < candidates[k + 1]
    /\ (options = <<"flat", "house", "house">> /\ start_index = 0 /\ tried = {}) =>
         candidates = <<1, 2>>

\* C20 witness: the example of the claim, applied
C20_Witness ==
  /\ pc = "addr_done"
  /\ supplier = "eon5"
  /\ options = <<"flat", "house", "house">>
  /\ start_index = 0
  /\ tried = {}
  /\ candidates = <<1, 2>>

C30_Step6WithoutBlocker ==
  pc = "sp_step6" => ~has_mpan_prompt(page_text) /\ ~has_business_notice(page_text)

\* the order the specification fixes
BlockPriority == <<"captcha", "access_denied", "rate_limited", "network_error",
                   "generic_error">>

\* the kinds whose phrase occurs in the text
KindsIn(text) ==
  {k \in PhrasesOf(BlockPriority) : \E i \in DOMAIN text : ovo_detect_blocking({text[i]}) = k}

\* C22 (as stated): for a text whose phrases belong to the five kinds,
\* detect_blocking returns the kind that comes first in
\* Captcha > AccessDenied > RateLimited > NetworkError > GenericError.
C22_FixedPriority ==
  (/\ pc = "block_check"
   /\ supplier \in DetectSuppliers
   /\ missed = {}
   /\ KindsIn(body) # {}
   /\ \A i \in DOMAIN body : body[i] \notin {"error", "undefined"})
  => \E n \in DOMAIN BlockPriority :
       /\ returned = BlockPriority[n]
       /\ \A m \in 1..(n - 1) : BlockPriority[m] \notin KindsIn(body)

\* every text with the phrases of t, in any order
Reorderings(t) == {u \in SeqsOver(PhrasesOf(t), Len(t)) : Len(u) = Len(t)}

\* C23: with a business-meter and a prepayment phrase in the text, the
\* kind the E.ON address loop acts on is the same for every order of the
\* phrases in the text.
C23_PopupKindIgnoresOrder ==
  (/\ pc \in {"block_next_address", "block_next_step"}
   /\ supplier \in PopupSuppliers
   /\ {"business_meter", "prepayment"} \subseteq PhrasesOf(body))
  => \A u \in Reorderings(body) : eon_popup_kind(supplier, u) = addrBlock

C23_Witness ==
  /\ pc = "block_next_address"
  /\ supplier = "eon6"
  /\ body = <<"prepayment", "business_meter">>
  /\ addrBlock = "business_meter"

\* a blocker phrase (or, for British Gas, the pair 'error' + 'undefined')
\* occurs in the text
HasBlockerPhrase(s, text) ==
  \/ \E i \in DOMAIN text : ovo_detect_blocking({text[i]}) # ""
  \/ s = "bg" /\ {"error", "undefined"} \subseteq PhrasesOf(text)

InFuelSection(text, fuel, other, kind, v) ==
  \E h \in DOMAIN text, i \in DOMAIN text :
    /\ h < i
    /\ text[h].k = fuel
    /\ text[i].k = kind /\ text[i].v = v
    /\ \A j \in (h + 1)..(i - 1) : text[j].k # other

\* C26 (as stated): every rate stored for a fuel stands in a section of that
\* fuel, for either order of the sections and with sections without a rate.
C26_FuelScoped ==
  (pc = "extract_done" /\ supplier \in {"bg", "ovo", "sp"}) =>
    LET r == returned.rates IN
    /\ r.gas_unit_rate_p # 0 => InFuelSection(body, "gas", "elec", "unit", r.gas_unit_rate_p)
    /\ r.gas_standing_p # 0 => InFuelSection(body, "gas", "elec", "standing", r.gas_standing_p)
    /\ r.elec_unit_rate_p # 0 => InFuelSection(body, "elec", "gas", "unit", r.elec_unit_rate_p)
    /\ r.elec_standing_p # 0 => InFuelSection(body, "elec", "gas", "standing", r.elec_standing_p)

\* C27 (as stated): the rate found in a fuel's section is returned whether
\* or not it lies in the plausibility range.
C27_OutOfRangeKept ==
  (pc = "extract_done" /\ supplier \in {"sp", "fuse"}) =>
    LET es == Section(body, "elec", {"gas"})
        u == IF es[1] = 0 THEN 0 ELSE FirstOf(body, {"unit"}, es[1], es[2])
    IN u # 0 => returned.rates.elec_unit_rate_p = body[u].v

\* C28 (as stated): the example page gives 27.50 / 45.10 / 6.20 / 30.00 and
\* the exit fee "<pound sign>50 per fuel".
C28_ExamplePage ==
  (pc = "extract_done" /\ supplier = "bg" /\ body = ExamplePage) =>
    returned.rates = [elec_unit_rate_p |-> 2750, elec_standing_p |-> 4510,
                      gas_unit_rate_p |-> 620, gas_standing_p |-> 3000,
                      exit_fee |-> [sign |-> "pound", amount |-> 50,
                                    per_fuel |-> TRUE]]

\* thread j was started while thread i was running, or the other way round
Concurrent(i, j) ==
  \/ i \in threads[j].started_with
  \/ j \in threads[i].started_with

NoRepeat(seq) == \A a, b \in DOMAIN seq : a # b => seq[a] # seq[b]

\* C31 (as stated): in the scrapers that carry the tried set across attempts
\* the tried set only grows during a task, and no address index is selected
\* more than once across all the attempts of the task.
C31_TriedGrowsNoReselect ==
  /\ [][CarriesTried(supplier) => tried \subseteq tried']_vars
  /\ [](CarriesTried(supplier) => NoRepeat(picked))

\* an attempt is running: scrape_with_retry has called the journey and it
\* has not returned yet
InAttempt == pc \notin {"retry_loop", "attempt_done", "sleeping", "returned"}

C33_CombineAfterJoin ==
  /\ pc = "run_combine" => \A i \in DOMAIN threads : threads[i].done
  /\ pc \in {"run_join", "run_combine"} =>
       \A i \in 1..cur : /\ threads[i].done
                         /\ threads[i].name \in DOMAIN results_dict

\* the runner goes on to combine after two threads, one of which succeeded
\* and one of which did not
C33_Witness ==
  /\ pc = "run_combine"
  /\ Len(threads) >= 2
  /\ \E a, b \in DOMAIN results_dict : results_dict[a] /\ ~results_dict[b]

\* the rows of the first combination that check_incomplete_data flags
Flagged == {k \in DOMAIN combined : check_incomplete_data(combined[k]) # ""}

\* C34 (as stated): when the retry phase is over, one single-postcode run of
\* the producing scraper's script was launched for every flagged row of a web
\* scraper, and none for an API scraper's rows or for complete rows.
C34_OneRetryPerFlaggedRow ==
  (pc = "agg_retry" /\ failed = <<>>) =>
    /\ retry_runs = IF IsApi(supplier) THEN 0 ELSE Cardinality(Flagged)
    /\ \A k \in DOMAIN combined :
         find_scraper(combined[k].supplier) \in {supplier, ""}

\* max(1, number of tariffs) summed over the first n results
RECURSIVE RowsBefore(_, _)
RowsBefore(data, n) ==
  IF n = 0 THEN 0
  ELSE RowsBefore(data, n - 1) +
       (IF data[n].tariffs = <<>> THEN 1 ELSE Len(data[n].tariffs))

\* C35: load_scraper_results gives each result with tariffs one row per
\* tariff, in order and with a null error, and each result without tariffs
\* exactly one row with a non-null error and null tariff name, rate and fee;
\* the rows number the sum over the results of max(1, number of tariffs).
C35_RowsPerResult ==
  pc \in {"load_done", "load_extended"} =>
    /\ Len(returned) = RowsBefore(body, Len(body))
    /\ \A n \in DOMAIN body :
         LET r == body[n]
             first == RowsBefore(body, n - 1) + 1
         IN IF r.tariffs # <<>>
              THEN \A j \in DOMAIN r.tariffs :
                     /\ returned[first + j - 1].error = "null"
                     /\ returned[first + j - 1].tariff_name =
                          GetOr(r.tariffs[j].tariff_name, "")
              ELSE /\ returned[first].error # "null"
                   /\ returned[first].tariff_name = "null"
                   /\ returned[first].elec_unit_rate_p = "null"
                   /\ returned[first].exit_fee_gbp = "null"

\* a file with a result of two tariffs and a failed result that names no error
C35_Witness ==
  /\ pc = "load_done"
  /\ \E a, b \in DOMAIN body :
       /\ Len(body[a].tariffs) = 2
       /\ body[b].tariffs = <<>> /\ body[b].error = "absent"
  /\ Len(returned) = 3

\* C36 (as stated): when the first unit-rate pattern matches in a fuel's
\* section, a unit rate stored for that fuel is the one that pattern found; a
\* later pattern has no say.
C36_FirstMatchWins ==
  (pc = "extract_done" /\ supplier = "sp") =>
    LET es == Section(body, "elec", {"gas"})
        gs == Section(body, "gas", {"elec"})
        eu == IF es[1] = 0 THEN 0 ELSE FirstOf(body, {"unit"}, es[1], es[2])
        gu == IF gs[1] = 0 THEN 0 ELSE FirstOf(body, {"unit"}, gs[1], gs[2])
    IN /\ eu # 0 => returned.rates.elec_unit_rate_p \in {0, body[eu].v}
       /\ gu # 0 => returned.rates.gas_unit_rate_p \in {0, body[gu].v}

\* C37 (as stated): for every --wait >= 0 and every jitter draw, each delay
\* the batch runner passes to time.sleep between regions and between batches
\* is non-negative, and no delay ends the batch by an exception.
C37_DelaysNonNegative ==
  (supplier \in {"bg", "eon5"} /\ wait_secs >= 0) =>
    /\ actual_wait >= 0
    /\ pc # "batch_raised"

====
